---- MODULE Spec2Model ----
(***************************************************************************)
(* Model of the simulation core of src/components/HillClimbCanvas.tsx:     *)
(* the imperative handle (setThrottle, setBoost, reset), the fixed-step    *)
(* frame loop (loop) and the per-tick control and scoring step (stepGame). *)
(*                                                                         *)
(* Numbers are fixed point.  throttle: tenths; fuel: 1/60000; boost01:      *)
(* 1/12000; angles: quarter of pi; lengths: millimetres; speeds: m/s;      *)
(* toast, freeze and air timers: ticks.  The times of the frame loop are   *)
(* binary floating point numbers, as in the program, of less precision.    *)
(*                                                                         *)
(* The rigid-body engine (planck-js, world.step) is not part of the        *)
(* repository.  One call of world.step is a nondeterministic choice among  *)
(* the outcomes of WorldStep: what stepGame reads back from the bodies.    *)
(* HUD-only fields of RunState (rpm01, speedKmh, bestM) are left out.      *)
(***************************************************************************)
EXTENDS Integers, Sequences, FiniteSets, TLC

(* ------------------------------ bounds -------------------------------- *)
\* Ticks simulated per run: no frame is started that would run past it.
MaxTicks == 2
\* Begin-contact events a wheel can have open at once.
MaxContacts == 1
\* Metres of terrain ahead of and behind the spawn point the chassis may reach.
Reach == 1

(* ------------------------------ scales -------------------------------- *)
ThrOne == 5 + 5                \* throttle 1.0
FuelOne == 60 * 1000           \* fuel 1.0
BoostOne == 12 * 1000          \* boost01 1.0
Metre == 10 * 100              \* 1 m

(* ------------------------------- times -------------------------------- *)
\* The frame loop computes with doubles: binary floating point numbers,
\* rounded to nearest, ties to even, after every operation.  A time of the
\* model is such a number with Prec significant bits in place of 53 (like
\* 53, one more than a multiple of four: 1/60 is rounded the same way),
\* held as a count of 1/Second s.
Prec == 9
Second == 256 * 256
Mant == 2 ^ Prec

\* The distance between neighbouring numbers at x >= 0.
RECURSIVE UlpFrom(_, _)
UlpFrom(u, x) == IF x < u * Mant THEN u ELSE UlpFrom(2 * u, x)
Ulp(x) == UlpFrom(1, x)

\* The number nearest to a / b (a >= 0, b > 0): the result of a division.
FlDiv(a, b) ==
  LET u == Ulp(a \div b)
      q == a \div (b * u)
      r == a - q * (b * u)
  IN u * (IF 2 * r > b * u \/ (2 * r = b * u /\ q % 2 = 1) THEN q + 1 ELSE q)

\* The number nearest to x >= 0: the result of a sum or a difference.
Fl(x) == FlDiv(x, 1)

(* ------------------------- program constants -------------------------- *)
HZ == 60
DT == FlDiv(Second, HZ)        \* line 41: 1 / HZ
MaxFrameTime == Second \div 4  \* 0.25 s
Pi == 4
FuelFull == 100 * FuelOne
ThrottleK == 154               \* 1 - exp(-10 * DT), per mille
FlipCoinBonus == 5
FlipFuelBonus == 3
FlipToastT == 81               \* 1.35 s
CoinToastT == 54               \* 0.9 s
FuelToastT == 66               \* 1.1 s
FuelValue == 35
CoinValue == 1
SettleCrash == 39              \* 0.65 s
SettleOutOfFuel == 81          \* 1.35 s
SpawnLift == 1550              \* 1.55 m
CamLift == 600                 \* 0.6 m
DefaultSeed == 1337

Statuses == {"IDLE", "RUN", "CRASH", "OUT_OF_FUEL"}
Terminal == {"CRASH", "OUT_OF_FUEL"}
NoToast == <<"none", 0, 0>>

(* ------------------------------ helpers ------------------------------- *)
Min(a, b) == IF a < b THEN a ELSE b
Max(a, b) == IF a > b THEN a ELSE b
Abs(a) == IF a < 0 THEN -a ELSE a
Sign(a) == IF a < 0 THEN -1 ELSE IF a > 0 THEN 1 ELSE 0
CeilDiv(a, b) == (a + b - 1) \div b

\* The element of a set of one element; {e : x \in {a}} computes a once,
\* however often e reads x.
The(S) == CHOOSE e \in S : TRUE

\* const clamp = (v, lo, hi) => Math.max(lo, Math.min(hi, v))
clamp(v, lo, hi) == Max(lo, Min(hi, v))

\* JavaScript's %: the sign of the result follows the dividend.
JsRem(a, b) == IF a >= 0 THEN a % b ELSE -((-a) % b)

\* The number NaN of JavaScript, kept apart from every number of the model.
NaN == -(1000 * 1000)

\* Math.min and Math.max (line 758): NaN if an argument is NaN.
MathMin(a, b) == IF a = NaN \/ b = NaN THEN NaN ELSE Min(a, b)
MathMax(a, b) == IF a = NaN \/ b = NaN THEN NaN ELSE Max(a, b)

(* ----------------------- stepGame, block by block --------------------- *)
\* Lines 772-775: exponential smoothing of the throttle toward its target.
\* The step is rounded away from zero, so the target is reached.  Arithmetic
\* on NaN gives NaN.
SmoothThrottle(cur, target) ==
  IF cur = NaN \/ target = NaN THEN NaN
  ELSE cur + Sign(target - cur) * CeilDiv(Abs(target - cur) * ThrottleK, 1000)

\* Variant of StartOnInput: the brake does not start the run.
StartOnGas(st, thr) ==
  IF st.status = "IDLE" /\ thr # NaN /\ thr * 50 > ThrOne
  THEN [st EXCEPT !.status = "RUN"] ELSE st

\* Line 781: start on first input (deadzone 0.02); Math.abs(NaN) > 0.02 is
\* false.
StartOnInput(st, thr) ==
  IF st.status = "IDLE" /\ thr # NaN /\ Abs(thr) * 50 > ThrOne
  THEN [st EXCEPT !.status = "RUN"] ELSE st

\* Variant of FuelDrain: the idle drain alone.
FuelDrainIdleOnly(thr, vx) == (16 * FuelOne) \div (100 * HZ)

\* Lines 790-797: (idleDrain + throttleDrain + speedDrain) * DT.
FuelDrain(thr, vx) ==
  LET gas == Max(0, thr)
  IN (16 * FuelOne) \div (100 * HZ)
     + (135 * gas * FuelOne) \div (100 * ThrOne * HZ)
     + (12 * Abs(vx) * gas * FuelOne) \div (1000 * ThrOne * HZ)

\* Variant of FuelLoop: the status is not consulted.
FuelLoopAnyStatus(st, target, thr, vx) ==
  LET f == st.fuel - FuelDrain(thr, vx)
  IN IF f <= 0
     THEN [s |-> [st EXCEPT !.fuel = 0, !.status = "OUT_OF_FUEL"],
           target |-> Min(0, target), ranOut |-> TRUE]
     ELSE [s |-> [st EXCEPT !.fuel = f], target |-> target, ranOut |-> FALSE]

\* Lines 785-805: the fuel loop.  Returns RunState and the throttle target.
FuelLoop(st, target, thr, vx) ==
  IF st.status # "RUN" THEN [s |-> st, target |-> target, ranOut |-> FALSE]
  ELSE LET f == st.fuel - FuelDrain(thr, vx)
       IN IF f <= 0
          THEN [s |-> [st EXCEPT !.fuel = 0, !.status = "OUT_OF_FUEL"],
                target |-> Min(0, target), ranOut |-> TRUE]
          ELSE [s |-> [st EXCEPT !.fuel = f], target |-> target, ranOut |-> FALSE]

\* Variant of BoostActive: the boost button is not consulted.
BoostActiveUnheld(st, held) ==
  st.status = "RUN" /\ st.boost01 * 100 > 3 * BoostOne

\* Line 811.
BoostActive(st, held) ==
  st.status = "RUN" /\ held /\ st.boost01 * 100 > 3 * BoostOne

\* Lines 812-814.
BoostSpend(st, held) ==
  IF BoostActive(st, held)
  THEN [st EXCEPT !.boost01 = Max(0, @ - (75 * BoostOne) \div (100 * HZ))]
  ELSE st

\* Lines 943-949: light boost charge while airborne.
AirCharge(st, groundedAny) ==
  IF st.status \in {"RUN", "OUT_OF_FUEL"} /\ ~groundedAny
  THEN [st EXCEPT !.boost01 = Min(BoostOne, @ + (5 * BoostOne) \div (100 * HZ))]
  ELSE st

\* Variant of Scoring: the score follows the chassis.
ScoringLast(st, x) == [st EXCEPT !.distanceM = x]

\* Line 961: distance scoring, only forward progress counts.
Scoring(st, x) == [st EXCEPT !.distanceM = Max(@, x)]

\* Lines 973-976.
ToastDecay(st) ==
  IF st.toastT > 0
  THEN LET t == Max(0, st.toastT - 1)
       IN [st EXCEPT !.toastT = t, !.toast = IF t = 0 THEN NoToast ELSE @]
  ELSE st

\* Lines 994-995: unwrap an angle delta to [-pi, pi].
RECURSIVE Unwrap(_)
Unwrap(d) ==
  IF d > Pi THEN Unwrap(d - 2 * Pi)
  ELSE IF d < -Pi THEN Unwrap(d + 2 * Pi)
  ELSE d

FreshAir == [active |-> FALSE, t |-> 0, acc |-> 0, lastAngle |-> 0, flipCount |-> 0]

\* Variant of FlipReward: the flips are paid for and not counted.
FlipRewardUncounted(st, gained) ==
  [st EXCEPT !.coins = @ + FlipCoinBonus * gained,
             !.fuel = Min(FuelFull, @ + FlipFuelBonus * gained * FuelOne),
             !.toast = <<"FLIP", FlipCoinBonus * gained, FlipFuelBonus * gained>>,
             !.toastT = FlipToastT,
             !.boost01 = Min(BoostOne, @ + (18 * gained * BoostOne) \div 100)]

\* Lines 1000-1014: the reward of a tick in which flipsNow exceeds flipCount.
FlipReward(st, gained) ==
  [st EXCEPT !.flips = @ + gained,
             !.coins = @ + FlipCoinBonus * gained,
             !.fuel = Min(FuelFull, @ + FlipFuelBonus * gained * FuelOne),
             !.toast = <<"FLIP", FlipCoinBonus * gained, FlipFuelBonus * gained>>,
             !.toastT = FlipToastT,
             !.boost01 = Min(BoostOne, @ + (18 * gained * BoostOne) \div 100)]

\* Variant of FlipsNow: flips are counted in pairs.
FlipsNowPairs(acc) == 2 * (Abs(acc) \div (4 * Pi))

\* Line 999.
FlipsNow(acc) == Abs(acc) \div (2 * Pi)

\* Variant of AirFlips: a wheel on the ground does not end the jump.
AirFlipsNoEnd(st, a, ang, groundedAny) ==
  IF st.status \in {"RUN", "OUT_OF_FUEL"} /\ ~groundedAny
  THEN LET a0 == IF a.active THEN a
                 ELSE [active |-> TRUE, t |-> 0, acc |-> 0, lastAngle |-> ang,
                       flipCount |-> 0]
           acc == a0.acc + Unwrap(ang - a0.lastAngle)
           now == FlipsNow(acc)
           gained == IF now > a0.flipCount THEN now - a0.flipCount ELSE 0
           a1 == [a0 EXCEPT !.t = @ + 1, !.acc = acc, !.lastAngle = ang,
                            !.flipCount = IF gained > 0 THEN now ELSE @]
           s0 == [st EXCEPT !.airtimeS = a1.t]
       IN [s |-> IF gained > 0 THEN FlipReward(s0, gained) ELSE s0,
           air |-> a1, gained |-> gained]
  ELSE [s |-> st, air |-> a, gained |-> 0]

\* Lines 979-1018: airtime and flips of the current jump.  ang is the chassis
\* angle after the physics step; groundedAny was read before it (line 825).
AirFlips(st, a, ang, groundedAny) ==
  IF st.status \in {"RUN", "OUT_OF_FUEL"} /\ ~groundedAny
  THEN LET a0 == IF a.active THEN a
                 ELSE [active |-> TRUE, t |-> 0, acc |-> 0, lastAngle |-> ang,
                       flipCount |-> 0]
           acc == a0.acc + Unwrap(ang - a0.lastAngle)
           now == FlipsNow(acc)
           gained == IF now > a0.flipCount THEN now - a0.flipCount ELSE 0
           a1 == [a0 EXCEPT !.t = @ + 1, !.acc = acc, !.lastAngle = ang,
                            !.flipCount = IF gained > 0 THEN now ELSE @]
           s0 == [st EXCEPT !.airtimeS = a1.t]
       IN [s |-> IF gained > 0 THEN FlipReward(s0, gained) ELSE s0,
           air |-> a1, gained |-> gained]
  ELSE [s |-> [st EXCEPT !.airtimeS = 0], air |-> [a EXCEPT !.active = FALSE],
        gained |-> 0]

FreshFreeze == [t |-> 0, frozen |-> FALSE]

\* The car rig: the motor speed (1/1000 rad/s) and maximum motor torque
\* (1/1000 N m) of spring1, the rear wheel joint, and of spring2, the front
\* one, and what the program last told the bodies: awake or asleep, and their
\* damping.
\* Lines 447-488: the rig as buildWorld makes it.
FreshRig ==
  [speed1 |-> 0, torque1 |-> 90 * 1000, speed2 |-> 0, torque2 |-> 90 * 1000,
   awake |-> TRUE, damping |-> "normal"]

\* Variant of Wake: the damping is left as it was.
WakeOnly(r) == [r EXCEPT !.awake = TRUE]

\* Lines 1068-1076: the bodies are woken and get their normal damping back.
Wake(r) == [r EXCEPT !.awake = TRUE, !.damping = "normal"]

\* Lines 1049-1055: a coin.
CoinReward(st, p) ==
  [st EXCEPT !.coins = @ + p.value,
             !.toast = <<"COIN", p.value, 0>>,
             !.toastT = CoinToastT,
             !.boost01 = Min(BoostOne, @ + (15 * p.value * BoostOne) \div 1000)]

\* Variant of FuelReward: the tank is not capped.
FuelRewardUncapped(st, p) ==
  [st EXCEPT !.fuel = @ + p.value * FuelOne,
             !.toast = <<"FUEL", p.value, 0>>,
             !.toastT = FuelToastT,
             !.boost01 = Min(BoostOne, @ + (10 * BoostOne) \div 100)]

\* Lines 1057-1063: a fuel can.
FuelReward(st, p) ==
  [st EXCEPT !.fuel = Min(FuelFull, @ + p.value * FuelOne),
             !.toast = <<"FUEL", p.value, 0>>,
             !.toastT = FuelToastT,
             !.boost01 = Min(BoostOne, @ + (10 * BoostOne) \div 100)]

\* Variant of Resumes: a full enough tank resumes from any status.
ResumesAnyStatus(before, after) == after.fuel * 2 > FuelOne

\* Line 1066: resume the run from a fuel can (before, after: RunState).
Resumes(before, after) ==
  before.status = "OUT_OF_FUEL" /\ before.fuel <= 0 /\ after.fuel * 2 > FuelOne

\* Lines 1033-1045: the hit test of pickup p against the query points.
PickupRadius(p) == IF p.kind = "fuel" THEN 1850 ELSE 1350
Hit(p, points) ==
  \E pos \in points :
    (p.x - pos[1]) * (p.x - pos[1]) + (p.y - pos[2]) * (p.y - pos[2])
      < PickupRadius(p) * PickupRadius(p)

\* Variant of PickupStep: the taken flag is not consulted.
PickupStepAgain(c, i, points) ==
  LET p == c.pickups[i]
  IN IF ~Hit(p, points) THEN c
     ELSE LET ps == [c.pickups EXCEPT ![i].taken = TRUE]
              log == Append(c.got, i)
          IN IF p.kind = "coin"
             THEN [c EXCEPT !.s = CoinReward(c.s, p), !.pickups = ps, !.got = log]
             ELSE [c EXCEPT !.s = FuelReward(c.s, p), !.pickups = ps, !.got = log]

\* Lines 1030-1078: one iteration of the pickup loop.  c carries RunState,
\* the pickups, the freeze record, the car rig and got, the pickups rewarded
\* in this tick in order; points are the query points.
PickupStep(c, i, points) ==
  LET p == c.pickups[i]
  IN IF p.taken \/ ~Hit(p, points) THEN c
     ELSE LET ps == [c.pickups EXCEPT ![i].taken = TRUE]
              log == Append(c.got, i)
          IN IF p.kind = "coin"
             THEN [c EXCEPT !.s = CoinReward(c.s, p), !.pickups = ps, !.got = log]
             ELSE LET s1 == FuelReward(c.s, p)
                  IN IF Resumes(c.s, s1)
                     THEN [c EXCEPT !.s = [s1 EXCEPT !.status = "RUN"],
                                    !.pickups = ps, !.got = log,
                                    !.cf = FreshFreeze, !.resumed = TRUE,
                                    !.rig = Wake(c.rig)]
                     ELSE [c EXCEPT !.s = s1, !.pickups = ps, !.got = log]

\* Line 1029: for (const p of pickupsRef.current), from index i on.
RECURSIVE PickupLoop(_, _, _)
PickupLoop(c, i, points) ==
  IF i > Len(c.pickups) THEN c
  ELSE PickupLoop(PickupStep(c, i, points), i + 1, points)

\* Lines 829 and 1091: ((pitch + PI) % (2 * PI)) - PI.
PitchNorm(pitch) == JsRem(pitch + Pi, 2 * Pi) - Pi

\* Line 1092: Math.abs(pitchNorm) > 2.2 (2.2 rad is 2.8 quarters of pi).
Upside(pitch) == Abs(PitchNorm(pitch)) * 10 > 28

\* Variant of CrashTest: the upside-down rule alone.
CrashTestUpsideOnly(angle, headGap, nearGround, groundedAny) ==
  Upside(angle) /\ nearGround /\ groundedAny

\* Line 1097: the crash condition; headGap is headWorld.y - gyHead.
CrashTest(angle, headGap, nearGround, groundedAny) ==
  headGap < 80 \/ (Upside(angle) /\ nearGround /\ groundedAny)

\* Lines 1084-1105: crash rules.  c carries RunState, throttle target, throttle,
\* freeze record and air state.
CrashRules(c, angle, headGap, nearGround, groundedAny) ==
  IF c.s.status = "RUN" /\ CrashTest(angle, headGap, nearGround, groundedAny)
  THEN [c EXCEPT !.s = [c.s EXCEPT !.status = "CRASH", !.airtimeS = 0],
                 !.target = 0, !.throttle = 0, !.cf = FreshFreeze, !.air = FreshAir]
  ELSE c

\* Variant of EndFreeze: the speed is not consulted.
EndFreezeAnySpeed(st, cfz, slow) ==
  IF (st.status = "CRASH" \/ (st.status = "OUT_OF_FUEL" /\ st.fuel * 100 <= FuelOne))
     /\ ~cfz.frozen
  THEN LET settleT == IF st.status = "CRASH" THEN SettleCrash ELSE SettleOutOfFuel
       IN [t |-> cfz.t + 1, frozen |-> cfz.t + 1 > settleT]
  ELSE cfz

\* Lines 1111-1143: end-of-run freeze; slow is sp < 0.35.
EndFreeze(st, cfz, slow) ==
  IF (st.status = "CRASH" \/ (st.status = "OUT_OF_FUEL" /\ st.fuel * 100 <= FuelOne))
     /\ ~cfz.frozen
  THEN LET settleT == IF st.status = "CRASH" THEN SettleCrash ELSE SettleOutOfFuel
           canFreeze == st.status = "CRASH" \/ slow
           t == IF canFreeze THEN cfz.t + 1 ELSE 0
       IN [t |-> t, frozen |-> t > settleT]
  ELSE cfz

(* --------------------------- the motor command ------------------------- *)
\* Speeds are in 1/1000 rad/s, torques in 1/1000 N m; a quarter of pi is
\* 0.7854 rad.

\* Line 808: drive; Math.min(0, NaN) is NaN.
Drive(status, thr) == IF status = "OUT_OF_FUEL" THEN MathMin(0, thr) ELSE thr

\* Lines 829-830: pitchCut, per mille.
PitchCut(pitch) ==
  LET pitchAbs == Abs(PitchNorm(pitch)) * 7854
  IN clamp(1000 - (Max(0, pitchAbs - 13500) * 1000) \div 6500, 0, 1000)

\* Line 834: traction, per cent.
Traction(rearGrounded) == IF rearGrounded THEN 100 ELSE 35

\* Lines 865-869 and 892-895: brake is clamp01(-drive), in tenths; the brake
\* torque is 88 * brake * (0.55 + 0.45 * endoCut).
Brake(drive) == clamp(-drive, 0, ThrOne)
BrakeTorque(drive, pitch) ==
  LET endoCut == clamp(1000 - (Max(0, -pitch * 7854 - 5500) * 1000) \div 4500, 0, 1000)
  IN (88 * Brake(drive) * (550 + (450 * endoCut) \div 1000)) \div ThrOne

\* What lines 837-839 declare: motorSpeed, rearTorque, brakeTorque.
NoMotor == [speed |-> 0, rear |-> 0, brake |-> 0]

\* Lines 847-884: the command while RUN.  omega is the rear wheel's angular
\* velocity in rad/s, vx the chassis speed in m/s; a comparison with NaN is
\* false.
MotorRun(thr, drive, boostActive, pitch, vx, omega, rearGrounded) ==
  IF drive # NaN /\ drive * 50 > ThrOne
  THEN LET speedMul == IF boostActive THEN 115 ELSE 100
           omega01 == clamp((Abs(omega) * 1000) \div 26, 0, 1000)
           powerDrop == 1000 - (620 * omega01) \div 1000
           boostMul == IF boostActive THEN 145 ELSE 100
           curve == ((30000 + 6200 * thr) * powerDrop) \div 1000
       IN [speed |-> -(thr * 26 * speedMul),
           rear |-> (((((curve * Traction(rearGrounded)) \div 100) * PitchCut(pitch))
                      \div 1000) * boostMul) \div 100,
           brake |-> 0]
  ELSE IF drive # NaN /\ drive * 50 < -ThrOne
  THEN IF vx * 10 > 8
       THEN [speed |-> 0, rear |-> 0, brake |-> BrakeTorque(drive, pitch)]
       ELSE [speed |-> Brake(drive) * 1000,
             rear |-> 36 * Brake(drive) * Traction(rearGrounded),
             brake |-> BrakeTorque(drive, pitch)]
  ELSE [speed |-> 0, rear |-> 7000, brake |-> 0]

\* Lines 886-904: the command while OUT_OF_FUEL.
MotorOut(drive, pitch, vx, rearGrounded) ==
  IF drive # NaN /\ drive * 50 < -ThrOne
  THEN IF vx * 10 <= 8
       THEN [speed |-> Brake(drive) * 1000,
             rear |-> 28 * Brake(drive) * Traction(rearGrounded),
             brake |-> BrakeTorque(drive, pitch)]
       ELSE [speed |-> 0, rear |-> 0, brake |-> BrakeTorque(drive, pitch)]
  ELSE NoMotor

\* Variant of Motor: the pedals command the motor in every status but IDLE.
MotorAnyStatus(status, thr, boostActive, pitch, vx, omega, rearGrounded) ==
  IF status = "IDLE" THEN [speed |-> 0, rear |-> 10000, brake |-> 0]
  ELSE MotorRun(thr, thr, boostActive, pitch, vx, omega, rearGrounded)

\* Lines 837-910: motorSpeed, rearTorque and brakeTorque of a tick.
Motor(status, thr, boostActive, pitch, vx, omega, rearGrounded) ==
  CASE status = "IDLE" -> [speed |-> 0, rear |-> 10000, brake |-> 0]
    [] status = "RUN" ->
         MotorRun(thr, Drive(status, thr), boostActive, pitch, vx, omega, rearGrounded)
    [] status = "OUT_OF_FUEL" -> MotorOut(Drive(status, thr), pitch, vx, rearGrounded)
    [] OTHER -> NoMotor

\* Variant of Joints: the front wheel is driven as the rear one.
JointsBoth(r, m) ==
  [r EXCEPT !.speed1 = m.speed, !.torque1 = m.rear + m.brake,
            !.speed2 = m.speed, !.torque2 = m.rear + m.brake]

\* Lines 913-918: the command is applied to the joints of rig r.
Joints(r, m) ==
  [r EXCEPT !.speed1 = m.speed, !.torque1 = m.rear + m.brake,
            !.speed2 = 0, !.torque2 = (m.brake * 8) \div 10]

\* Lines 1113-1141: what the end-of-run freeze does to the rig; cfz is the
\* freeze record before the block, fz after it.
FreezeRig(st, cfz, fz, r) ==
  IF (st.status = "CRASH" \/ (st.status = "OUT_OF_FUEL" /\ st.fuel * 100 <= FuelOne))
     /\ ~cfz.frozen
  THEN IF fz.frozen
       THEN [speed1 |-> 0, torque1 |-> 0, speed2 |-> 0, torque2 |-> 0,
             awake |-> FALSE, damping |-> "settle"]
       ELSE [r EXCEPT !.damping = "settle"]
  ELSE r

(* ------------------------------ terrain ------------------------------- *)
\* Metres of track generated ahead of the spawn point; the source generates
\* 1800 m (line 61).
TrackEnd == 100

TRACK_DX == 250
TRACK_X0 == -(40 * Metre)
TRACK_X1 == TrackEnd * Metre
TrackLen == (TRACK_X1 - TRACK_X0) \div TRACK_DX + 1
PAD_X0 == -4000
PAD_X1 == 8000
PAD_BLEND == 3000

\* The generator computes heights in tenths of a millimetre (High to the
\* metre), fractions per mille, angles in 1/65536 of a turn.
Fine == 2 * 5
High == Fine * Metre

\* Lines 91-94: smooth01, argument and result per mille.
smooth01(t) ==
  LET u == clamp(t, 0, 1000) IN (((u * u) \div 1000) * (3000 - 2 * u)) \div 1000

\* A 32-bit word is kept as its two 16-bit halves, <<high, low>>.
Half == 256 * 256
Byte == 2 * 128
ToWord(n) == <<(n \div Half) % Half, n % Half>>

RECURSIVE Xor16(_, _)
Xor16(x, y) ==
  IF x = 0 THEN y ELSE IF y = 0 THEN x
  ELSE ((x + y) % 2) + 2 * Xor16(x \div 2, y \div 2)

RECURSIVE Or16(_, _)
Or16(x, y) ==
  IF x = 0 THEN y ELSE IF y = 0 THEN x
  ELSE (IF (x % 2) + (y % 2) > 0 THEN 1 ELSE 0) + 2 * Or16(x \div 2, y \div 2)

\* a ^ b; a | k for k < 65536; a + b; a >>> n for 0 < n < 16.
Xor32(a, b) == <<Xor16(a[1], b[1]), Xor16(a[2], b[2])>>
OrLow(a, k) == <<a[1], Or16(a[2], k)>>
Add32(a, b) ==
  LET lo == a[2] + b[2]
  IN <<(a[1] + b[1] + (lo \div Half)) % Half, lo % Half>>
Shr32(a, n) ==
  LET p == 2 ^ n
  IN <<a[1] \div p, (a[2] \div p) + (a[1] % p) * (Half \div p)>>

\* The product of two 16-bit numbers, as a word.
Mul16(x, y) ==
  LET p0 == (x % Byte) * (y % Byte)
      p1 == (x \div Byte) * (y % Byte) + (x % Byte) * (y \div Byte)
      p2 == (x \div Byte) * (y \div Byte)
      lo == p0 + (p1 % Byte) * Byte
  IN <<p2 + (p1 \div Byte) + (lo \div Half), lo % Half>>

\* Math.imul: the low 32 bits of the product.
Imul(a, b) ==
  LET ll == Mul16(a[2], b[2])
  IN <<(ll[1] + Mul16(a[1], b[2])[2] + Mul16(a[2], b[1])[2]) % Half, ll[2]>>

\* 0x6d2b79f5 and 0x9e3779b9.
Golden == <<27947, 31221>>
PickupSalt == <<40503, 31161>>

\* Lines 66-73: one call of the function mulberry32 returns; seed is the
\* variable its closure holds, out the 32 bits of the result.
mulberry32(seed) ==
  The({ The({ The({ [seed |-> s1, out |-> Xor32(t2, Shr32(t2, 14))]
                    : t2 \in {Xor32(t1, Add32(t1, Imul(Xor32(t1, Shr32(t1, 7)),
                                                       OrLow(t1, 61))))} })
              : t1 \in {Imul(Xor32(s1, Shr32(s1, 15)), OrLow(s1, 1))} })
        : s1 \in {Add32(seed, Golden)} })

\* Lines 66-73: what n calls in a row return, from the closure's variable rng
\* on.
RECURSIVE Draws(_, _)
Draws(rng, n) ==
  IF n = 0 THEN <<>>
  ELSE The({ <<r>> \o Draws(r.seed, n - 1) : r \in {mulberry32(rng)} })

\* The result of rnd() as a count of 1/65536: its high 16 bits.
Frac(w) == w[1]

\* Math.sin of an angle a in 1/65536 turns, per mille (Bhaskara's formula,
\* within 2 per mille of the sine).
SinMille(a) ==
  LET h == a % (Half \div 2)
      q == (h * ((Half \div 2) - h)) \div 4096
      v == (16000 * q) \div (5 * 4 * Half - 4 * q)
  IN IF a % Half < Half \div 2 THEN v ELSE -v

\* Lines 85-106: the variables of buildTrack as declared; rng is the
\* variable of the closure rnd (only its low 32 bits bear on what rnd
\* returns), xs and ys what was pushed so far, caps the maxStep and curvMax
\* in force at each push.
GenVars(seed) ==
  LET r == mulberry32(seed)
  IN [rng |-> r.seed, kind |-> "flat", segLen |-> 24 * Metre, segT |-> 0,
      y0 |-> (86 * High) \div 100, y1 |-> (86 * High) \div 100, bump |-> 0,
      phase |-> Frac(r.out), x |-> TRACK_X0, y |-> (86 * High) \div 100,
      lastDy |-> 0, xs |-> <<>>, ys |-> <<>>, caps |-> <<>>]

\* Lines 116-162: chooseSeg(d).
chooseSeg(g0, d) ==
  The({ LET diff == clamp((d - 2 * Metre) \div 160, 0, 1000)
            \* the calls of rnd() that choose the kind: none before 25 m
            k == IF d < 25 * Metre THEN 0 ELSE 1
            r1 == rs[1]
            kind == IF d < 25 * Metre THEN "hill"
                    ELSE IF d < 60 * Metre
                    THEN IF Frac(r1.out) * 100 < 15 * Half THEN "roll" ELSE "hill"
                    ELSE LET wHill == 600 + (320 * diff) \div 1000
                             r == (Frac(r1.out) * (80 + 320 + wHill)) \div Half
                         IN IF r < 80 THEN "flat"
                            ELSE IF r < 80 + 320 THEN "roll" ELSE "hill"
            r2 == rs[k + 1]
            segLen == IF kind = "flat" THEN 10 * Metre + (Frac(r2.out) * 18000) \div Half
                      ELSE IF kind = "roll" THEN 14 * Metre + (Frac(r2.out) * 22000) \div Half
                      ELSE 18 * Metre + (Frac(r2.out) * 11000) \div (Half \div 4)
            r3 == rs[k + 2]
            baseline == (95 * High) \div 100 + (((35 * High) \div 100) * diff) \div 1000
            basePull == ((baseline - g.y) * (IF kind = "hill" THEN 55 ELSE 80)) \div 100
            r4 == rs[k + 3]
            sway == 2 * Frac(r4.out) - Half
            amp == IF kind = "flat" THEN High \div 10
                   ELSE IF kind = "roll"
                   THEN (34 * High) \div 100 + (((20 * High) \div 100) * diff) \div 1000
                   ELSE (110 * High) \div 100 + (((95 * High) \div 100) * diff) \div 1000
            r5 == rs[k + 4]
            span == IF kind = "roll"
                    THEN (75 * High) \div 100 + (((40 * High) \div 100) * diff) \div 1000
                    ELSE (235 * High) \div 100 + (((175 * High) \div 100) * diff) \div 1000
            bump0 == (IF kind = "roll" THEN (55 * High) \div 100 ELSE (160 * High) \div 100)
                     + ((Frac(r5.out) \div 2) * span) \div (Half \div 2)
            r6 == rs[k + 5]
            bump == IF kind = "flat" THEN 0
                    ELSE IF kind = "roll" THEN bump0
                    ELSE IF Frac(r6.out) * 1000 < (300 + (200 * diff) \div 1000) * Half
                    THEN (bump0 * 135) \div 100
                    ELSE bump0
        IN [g EXCEPT !.kind = kind, !.segLen = segLen, !.segT = 0, !.y0 = g.y,
                     !.phase = Frac(r3.out),
                     !.y1 = g.y + basePull + (sway * amp) \div Half,
                     !.bump = bump,
                     !.rng = IF kind = "flat" THEN r4.seed
                             ELSE IF kind = "roll" THEN r5.seed ELSE r6.seed]
        : g \in {g0}, rs \in {Draws(g0.rng, 6)} })

\* Line 164: the generator as it enters the loop.
GenStart(seed) == chooseSeg(GenVars(seed), 0)

\* Lines 107-114: SLOPE_KIND_MUL, per mille.
SlopeKindMul(kind) ==
  IF kind = "flat" THEN 1000 ELSE IF kind = "roll" THEN 1080 ELSE 1160

\* Lines 171-180: maxStep and curvMax d millimetres into the track.
Caps(kind, d) ==
  LET startEase == clamp(d \div 5, 0, 1000)
      diff == clamp((d - 10 * Metre) \div 220, 0, 1000)
      easy == 1000 - clamp((d - 2 * Metre) \div 40, 0, 1000)
      slopeMaxBase == (280 * easy + (440 + (520 * diff) \div 1000) * (1000 - easy)) \div 1000
      slopeMax == clamp((((slopeMaxBase * (400 + (600 * startEase) \div 1000)) \div 1000)
                         * SlopeKindMul(kind)) \div 1000, 80, 650)
  IN <<(slopeMax * TRACK_DX * Fine) \div 1000,
       ((20000 + 26 * diff) * (TRACK_DX \div 10) * Fine) \div (100 * 1000)>>

\* Lines 203-205: dy, following the target within the slope and curvature
\* caps.
Follow(y, lastDy, targetY, cap) ==
  clamp(clamp(targetY - y, -cap[1], cap[1]), lastDy - cap[2], lastDy + cap[2])

\* Lines 166-213: one pass of the loop body.
LoopStep(g0) ==
  The({ The({ The({ LET y == clamp(g.y + dy, -((55 * High) \div 100), (49 * High) \div 10)
                    IN [g EXCEPT !.y = y, !.lastDy = dy, !.xs = Append(@, g.x),
                                 !.ys = Append(@, y), !.caps = Append(@, cap),
                                 !.x = @ + TRACK_DX, !.segT = @ + TRACK_DX]
                    : dy \in {Follow(g.y, g.lastDy, targetY, cap)} })
              : cap \in {Caps(g.kind, g.x - TRACK_X0)},
                targetY \in {LET startEase == clamp((g.x - TRACK_X0) \div 5, 0, 1000)
                                 u == clamp((g.segT * 1000) \div Max(1, g.segLen), 0, 1000)
                                 trend == g.y0 + ((g.y1 - g.y0) * smooth01(u)) \div 1000
                                 wave == IF g.kind = "roll"
                                         THEN (g.bump * SinMille((u * Half) \div 1000 + g.phase))
                                              \div 1000
                                         ELSE IF g.kind = "hill"
                                         THEN (g.bump * SinMille((u * (Half \div 2)) \div 1000))
                                              \div 1000
                                         ELSE 0
                                 micro == (((12 * Fine * SinMille(((g.x + 12300) * 8866) \div 1000)
                                             + 5 * Fine * SinMille(((g.x - 7100) * 2034) \div 100))
                                            \div 1000) * startEase) \div 1000
                             IN trend + wave + micro} })
        : g \in {IF g0.segT >= g0.segLen THEN chooseSeg(g0, g0.x - TRACK_X0) ELSE g0} })

\* Lines 166-213: n passes of the loop, if x <= TRACK_X1 lets it go that far.
RECURSIVE LoopSteps(_, _)
LoopSteps(g0, n) ==
  The({ IF n = 0 \/ g.x > TRACK_X1 THEN g
        ELSE IF n = 1 THEN LoopStep(g)
        ELSE LoopSteps(LoopSteps(g, n \div 2), n - n \div 2)
        : g \in {g0} })

\* Lines 166-213: while (x <= TRACK_X1).
Generate(g) == LoopSteps(g, TrackLen)

\* Line 218: n passes of the inner loop, in place, from index i on (ys[i - 1]
\* is already smoothed).
RECURSIVE SmoothSteps(_, _, _)
SmoothSteps(ys0, i, n) ==
  The({ IF n <= 0 \/ i >= Len(ys) THEN ys
        ELSE IF n = 1
        THEN [ys EXCEPT ![i] = (2 * ys[i] + ys[i - 1] + ys[i + 1] + 2) \div 4]
        ELSE SmoothSteps(SmoothSteps(ys, i, n \div 2), i + n \div 2, n - n \div 2)
        : ys \in {ys0} })

\* Lines 217-219: for (i = 1; i < ys.length - 1; i++).
Smooth(ys) == SmoothSteps(ys, 2, Len(ys) - 2)

\* Variant of Blend: the first weight is left out.
BlendSum(a, b, t) == (a * 1000 + b * t) \div 1000

\* Lines 237 and 240: a * (1 - t) + b * t, t per mille.
Blend(a, b, t) == (a * (1000 - t) + b * t) \div 1000

\* Lines 228-229: the index of the sample at x = 0 (sequences count from 1)
\* and the height of the pad.
PadIndex(ys) ==
  clamp((0 - TRACK_X0 + TRACK_DX \div 2) \div TRACK_DX, 0, Len(ys) - 1) + 1
PadHeight(ys) == ys[PadIndex(ys)]

\* Lines 223-242: the start pad.
StartPad(xs0, ys0) ==
  The({ SubSeq([i \in 1..Len(ys) |->
          LET xx == xs[i]
          IN IF xx >= PAD_X0 /\ xx <= PAD_X1 THEN yPad
             ELSE IF xx > PAD_X0 - PAD_BLEND /\ xx < PAD_X0
             THEN Blend(ys[i], yPad,
                        smooth01(((xx - (PAD_X0 - PAD_BLEND)) * 1000) \div PAD_BLEND))
             ELSE IF xx > PAD_X1 /\ xx < PAD_X1 + PAD_BLEND
             THEN Blend(yPad, ys[i], smooth01(((xx - PAD_X1) * 1000) \div PAD_BLEND))
             ELSE ys[i]], 1, Len(ys))
        : xs \in {xs0}, ys \in {ys0}, yPad \in {PadHeight(ys0)} })

\* Lines 75-245: buildTrack.
buildTrack(seed) ==
  The({ [xs |-> g.xs, ys |-> StartPad(g.xs, Smooth(Smooth(g.ys)))]
        : g \in {Generate(GenStart(seed))} })

\* Positions are binary floating point numbers of XPrec significant bits,
\* counted in millimetres; FlX rounds a sum or difference of two of them
\* (x >= 0) to the nearest one, ties to the even one.
XPrec == 17
XMant == 2 ^ XPrec
RECURSIVE XUlpFrom(_, _)
XUlpFrom(u, x) == IF x < u * XMant THEN u ELSE XUlpFrom(2 * u, x)
FlX(x) ==
  LET u == XUlpFrom(1, x)
      q == x \div u
      r == x - q * u
  IN u * (IF 2 * r > u \/ (2 * r = u /\ q % 2 = 1) THEN q + 1 ELSE q)

\* Lines 250-251: the index i0.
Bracket(tr, x) ==
  Max(0, Min(Len(tr.xs) - 2, FlX(x - TRACK_X0) \div TRACK_DX))

\* Lines 247-256.
sampleTrackY(tr, x) ==
  IF x <= tr.xs[1] THEN tr.ys[1]
  ELSE IF x >= tr.xs[Len(tr.xs)] THEN tr.ys[Len(tr.ys)]
  ELSE LET i0 == Bracket(tr, x)
           x0 == tr.xs[i0 + 1]
           x1 == tr.xs[i0 + 2]
           y0 == tr.ys[i0 + 1]
           y1 == tr.ys[i0 + 2]
       IN y0 + ((y1 - y0) * (x - x0)) \div (x1 - x0)

(* ------------------------------- state -------------------------------- *)
VARIABLES
  s,               \* stateRef: RunState
  throttleTarget,  \* throttleTargetRef
  throttle,        \* throttleRef (smoothed)
  boostHeld,       \* boostHeldRef
  gr,              \* groundedRef: wheel contact counts w1, w2
  cf,              \* crashFreezeRef: t, frozen
  air,             \* airRef
  pickups,         \* pickupsRef
  track,           \* trackRef
  seedRef,         \* seedRef
  car,             \* carRef: what the bodies report after the last world.step
  rig,             \* carRef: the joints' motors, and the bodies' sleep and damping
  cam,             \* camRef
  snapshot,        \* snapshotRef
  lastEndStatus,   \* lastEndStatusRef
  paused,          \* pausedRef
  accumulator,     \* loop: accumulator
  frameTime,       \* loop: frameTime of the frame in progress
  pc,              \* position of the frame callback: idle, ticks, draw
  ticks,           \* ticks run since the run began (bounded by MaxTicks)
  ev,              \* history: what the last tick did
  maxX,            \* history: largest chassis x seen after a physics step
  rewards,         \* history: times each pickup's reward was applied
  fires,           \* history: onGameOver calls since status last entered a terminal state
  rendered,        \* history: render was called since the frame began or the pause flag changed
  jump,            \* history: the rotation and the flip rewards of the jump in progress
  contacts,        \* the world: contacts of a body with a part of the ground that have begun and not ended
  lastContact,     \* history: the last contact event
  over,            \* history: the last onGameOver call of the run
  clock,           \* history: clamped time of the unpaused frames of the run, and the sums and differences the accumulator went through
  frameTicks,      \* history: ticks run by the frame in progress
  hud,             \* loop: lastEmit, lastStatus, lastToastT, and what the last frame emitted
  builders,        \* calls of buildWorld in progress: the locals of buildTrack and of the pickup loops
  probe            \* history: the last call of sampleTrackY on a finished track

run == <<s, throttleTarget, throttle, boostHeld, gr, cf, air, pickups, track,
         seedRef, car, rig>>
loopVars == <<cam, snapshot, lastEndStatus, accumulator, frameTime, pc>>
hist == <<ticks, ev, maxX, rewards, fires, rendered, jump>>
terrain == <<builders, probe>>
aside == <<contacts, lastContact, terrain>>
watch == <<over, clock, frameTicks, hud>>
vars == <<run, loopVars, paused, hist, aside, watch>>

(* ------------------------------ builders ------------------------------ *)
\* Two calls of buildWorld, each with its own locals.
Builders == {"a", "b"}

NoGen ==
  [rng |-> <<0, 0>>, kind |-> "flat", segLen |-> 0, segT |-> 0, y0 |-> 0, y1 |-> 0,
   bump |-> 0, phase |-> 0, x |-> TRACK_X0, y |-> 0, lastDy |-> 0, xs |-> <<>>,
   ys |-> <<>>, caps |-> <<>>]
NoTrack == [xs |-> <<>>, ys |-> <<>>]

\* A call of buildWorld: stage is its position, rebuilt: the component had
\* built a world for another seed before, g the locals of buildTrack, ys the
\* heights being smoothed, gen the heights before the start pad, prnd the
\* variable of the closure prnd, i the counter of the pickup loop.
NoBuild ==
  [stage |-> "none", seed |-> <<0, 0>>, rebuilt |-> FALSE, g |-> NoGen, k |-> 0,
   ys |-> <<>>, gen |-> <<>>, track |-> NoTrack, prnd |-> <<0, 0>>, i |-> 0,
   pickups |-> <<>>]
NoProbe == [set |-> FALSE, x |-> 0, i0 |-> 0, y |-> 0]

(* ------------------------- reset and buildWorld ------------------------ *)
\* Lines 393-406 (and 330-343): the RunState of a new run.
FreshState ==
  [status |-> "IDLE", distanceM |-> 0, coins |-> 0, fuel |-> FuelFull,
   boost01 |-> 0, airtimeS |-> 0, flips |-> 0, toast |-> NoToast, toastT |-> 0]

\* Variant of ResetControls: the boost button is left as it was.
ResetControlsKeepBoost(held) == [target |-> 0, throttle |-> 0, boostHeld |-> held]

\* Lines 377-379: the controls after reset (held: boostHeldRef before it).
ResetControls(held) == [target |-> 0, throttle |-> 0, boostHeld |-> FALSE]

\* Lines 371-374: resolveSeed.  The seed prop is undefined, or a number: NaN,
\* an infinity, or a count of thousandths.  s >>> 0 is a 32-bit word.
NoSeed == [type |-> "undefined"]
resolveSeed(seedProp) ==
  ToWord(IF seedProp.type = "number" /\ seedProp.finite
         THEN seedProp.milli \div 1000
         ELSE DefaultSeed)

\* Lines 521-544: the pickups laid out by buildWorld on track tr: the first
\* coin and the first fuel can, which lie just ahead of the stretch of
\* track that is followed.
CoinX == 2 * Metre
FuelX == CoinX + Metre \div 2
PickupLift == 2050
Layout(tr) ==
  << [kind |-> "coin", x |-> CoinX, y |-> sampleTrackY(tr, CoinX) \div Fine + PickupLift,
      value |-> CoinValue, taken |-> FALSE],
     [kind |-> "fuel", x |-> FuelX, y |-> sampleTrackY(tr, FuelX) \div Fine + PickupLift,
      value |-> FuelValue, taken |-> FALSE] >>

ClearGap == Metre

\* Lines 442-448 and 497-498: the chassis spawned by buildWorld on track tr.
SpawnCar(tr) ==
  [x |-> 0, y |-> sampleTrackY(tr, 0) \div Fine + SpawnLift, angle |-> 0, vx |-> 0]

\* Lines 546-548: the camera starts at the spawn point.
SpawnCam(c) == [x |-> c.x, y |-> c.y]

\* Lines 414-549: what buildWorld leaves in the refs for a seed.
buildWorld(seed) ==
  LET tr == buildTrack(seed)
      body == SpawnCar(tr)
  IN [track |-> tr, car |-> body, cam |-> SpawnCam(body), pickups |-> Layout(tr),
      gr |-> [w1 |-> 0, w2 |-> 0], rig |-> FreshRig]

\* The history of the last step of the run: op is tick or reset, from the
\* status before it, atTest the status the crash rules found, headGap the
\* head's height over the terrain after the physics step, dist0 the
\* distance score before it, left: a terminal status was left with no
\* onGameOver call since it was entered, thr the smoothed throttle, atDrain
\* and atMotor the status at the fuel loop and at the motor command, motor
\* the command, fuelAt the fuel when the pickup loop began, slow: the speed
\* read by the freeze was below 0.35, boost0 and fuel0 the boost and the
\* fuel before the tick, wheels the contact counts read at line 822, flying:
\* the air state was active before the tick, held: the boost control was
\* held during it, after:
\* the freeze record and the bodies when the pickup loop ended.
NoEvent == [op |-> "none", from |-> "none", ranOut |-> FALSE, gained |-> 0,
            got |-> <<>>, resumed |-> FALSE, atTest |-> "none", headGap |-> 0,
            dist0 |-> 0, left |-> FALSE, thr |-> 0, atDrain |-> "none",
            atMotor |-> "none", motor |-> NoMotor, fuelAt |-> 0, slow |-> FALSE,
            boost0 |-> 0, fuel0 |-> 0, wheels |-> [w1 |-> 0, w2 |-> 0],
            flying |-> FALSE, held |-> FALSE,
            after |-> [cf |-> FreshFreeze, awake |-> TRUE, damping |-> "normal"]]
NoJump == [dir |-> 0, events |-> 0, flips |-> 0]

(* -------------------------- contact listeners ------------------------- *)
\* Bodies whose contacts with the ground body reach the listeners: the two
\* wheels (userData kind wheel1, wheel2; named here as the fields of
\* groundedRef) and the chassis.
Wheels == {"w1", "w2"}
Bodies == Wheels \cup {"chassis"}

\* The ground body carries a chain of edges and a safety floor (lines 435 and
\* 439); a wheel on a vertex of the chain touches two edges at once.  One
\* contact joins a body and one part of the ground.
GroundParts == 1..(MaxContacts + 1)

NoContact == [kind |-> "none", body |-> "none", open |-> 0]

\* The contacts open when the wheels' counters are g and no listener has
\* been followed one by one.
OpenContacts(g) ==
  {<<"w1", k>> : k \in 1..g.w1} \cup {<<"w2", k>> : k \in 1..g.w2}

\* The contacts of body b among cs.
Of(cs, b) == {c \in cs : c[1] = b}

\* Lines 823-824 (and 766): a wheel is grounded while its counter is positive.
Grounded(g, w) == g[w] > 0

\* Lines 507-508: the counter of a wheel whose contact begins.
BeginCount(n) == n + 1

\* Variant of EndCount: the end of a contact releases the wheel.
EndCountRelease(n) == 0

\* Lines 517-518: the counter of a wheel whose contact ends.
EndCount(n) == Max(0, n - 1)

\* Lines 501-509: planck-js reports that a contact of body b with a part of
\* the ground has begun.
BeginContact ==
  /\ \E b \in Bodies, part \in GroundParts :
       /\ <<b, part>> \notin contacts
       /\ contacts' = contacts \cup {<<b, part>>}
       /\ gr' = IF b \in Wheels THEN [gr EXCEPT ![b] = BeginCount(@)] ELSE gr
       /\ lastContact' = [kind |-> "begin", body |-> b,
                          open |-> Cardinality(Of(contacts, b))]
  /\ UNCHANGED <<terrain, s, throttleTarget, throttle, boostHeld, cf, air, pickups, track,
                 seedRef, car, rig, loopVars, paused, hist, watch>>

\* Lines 511-519: planck-js reports that a contact that had begun has ended.
EndContact ==
  /\ \E c \in contacts :
       /\ contacts' = contacts \ {c}
       /\ gr' = IF c[1] \in Wheels THEN [gr EXCEPT ![c[1]] = EndCount(@)] ELSE gr
       /\ lastContact' = [kind |-> "end", body |-> c[1],
                          open |-> Cardinality(Of(contacts, c[1]))]
  /\ UNCHANGED <<terrain, s, throttleTarget, throttle, boostHeld, cf, air, pickups, track,
                 seedRef, car, rig, loopVars, paused, hist, watch>>

(* --------------------------- the physics step -------------------------- *)
\* Largest chassis angle followed (two and a half turns either way).
AngleCap == 5 * Pi
\* headWorld.y - gyHead: below the terrain, within the 0.08 m margin, clear.
HeadGaps == {-100, 50, ClearGap}

\* The chassis is level at whole turns.
Tilted(angle) == angle % (2 * Pi) # 0

\* What one world.step does to position, angle and wheel contacts: in a tick
\* the chassis rolls 1 m, or turns a quarter turn (only with a wheel off the
\* ground), or one wheel gains or loses a ground contact, or nothing changes.
\* A car that was IDLE when the tick began only settles on its wheels.
Moves(status) ==
  LET stay == <<0, 0, gr.w1, gr.w2>>
      touch == {<<0, 0, a, gr.w2>> : a \in {gr.w1 - 1, gr.w1 + 1} \cap 0..MaxContacts}
               \cup {<<0, 0, gr.w1, b>> : b \in {gr.w2 - 1, gr.w2 + 1} \cap 0..MaxContacts}
      roll == {<<d, 0, gr.w1, gr.w2>> :
                 d \in {dd \in {-Metre, Metre} : Abs(car.x + dd) <= Reach * Metre}}
      spin == IF gr.w1 > 0 /\ gr.w2 > 0 THEN {}
              ELSE {<<0, a, gr.w1, gr.w2>> :
                      a \in {aa \in {-2, 2} : Abs(car.angle + aa) <= AngleCap}}
  IN IF cf.frozen THEN {stay}
     ELSE IF status = "IDLE"
     THEN {stay} \cup {m \in touch : m[3] >= gr.w1 /\ m[4] >= gr.w2}
     ELSE {stay} \cup touch \cup roll \cup spin

\* The outcomes of world.step (line 954) as stepGame reads them back; before
\* is the status when the tick began, status the one the fuel loop left.
WorldStep(before, status) ==
  UNION {
    { [x |-> car.x + m[1], vx |-> HZ * (m[1] \div Metre), angle |-> car.angle + m[2],
       w1 |-> m[3], w2 |-> m[4], headGap |-> h, near |-> n, slow |-> sl] :
        h \in (IF Tilted(car.angle + m[2]) /\ status \in {"RUN", "OUT_OF_FUEL"}
                  /\ ~cf.frozen
               THEN HeadGaps ELSE {ClearGap}),
        n \in (IF status \in {"RUN", "OUT_OF_FUEL"} /\ gr.w1 + gr.w2 > 0
                  /\ Upside(car.angle + m[2]) THEN BOOLEAN ELSE {TRUE}),
        sl \in (IF m[1] # 0 THEN {FALSE}
                ELSE IF status = "OUT_OF_FUEL" /\ ~cf.frozen THEN BOOLEAN
                ELSE {TRUE}) } :
    m \in Moves(before) }

\* world.step during a jump: the chassis turns a quarter turn either way (the
\* most planck-js turns a body in one step) or keeps its angle, or the rear
\* wheel touches down or lifts off; the head stays clear of the terrain.
AirStep(before, status) ==
  { [x |-> car.x, vx |-> 0, angle |-> car.angle + a, w1 |-> gr.w1, w2 |-> gr.w2,
     headGap |-> ClearGap, near |-> FALSE, slow |-> FALSE] :
      a \in {aa \in {-2, 0, 2} : Abs(car.angle + aa) <= AngleCap} }
  \cup
  { [x |-> car.x, vx |-> 0, angle |-> car.angle, w1 |-> w, w2 |-> gr.w2,
     headGap |-> ClearGap, near |-> FALSE, slow |-> FALSE] :
      w \in {gr.w1 - 1, gr.w1 + 1} \cap 0..MaxContacts }

\* Speeds the chassis settles at.
Speeds == {0, 30, 60}

\* world.step with the throttle held: the car keeps the speed it picked up
\* when it started, on its wheels, or, once under way, noses over.
HoldStep(before, status) ==
  { [x |-> car.x, vx |-> v, angle |-> ah[1], w1 |-> 1, w2 |-> 1,
     headGap |-> ah[2], near |-> TRUE, slow |-> v = 0] :
      v \in (IF before = "IDLE" THEN Speeds ELSE {car.vx}),
      ah \in (IF before = "RUN" THEN {<<0, ClearGap>>, <<2, 50>>}
              ELSE {<<0, ClearGap>>}) }

\* world.step of a car that stands where it is.
RestStep(before, status) ==
  { [x |-> car.x, vx |-> 0, angle |-> car.angle, w1 |-> gr.w1, w2 |-> gr.w2,
     headGap |-> ClearGap, near |-> TRUE, slow |-> TRUE] }

\* world.step during a jump off the spawn point: the chassis turns a quarter
\* turn either way or keeps its angle, and flies on a metre or stays.
StuntStep(before, status) ==
  { [x |-> car.x + d, vx |-> HZ * (d \div Metre), angle |-> car.angle + a,
     w1 |-> gr.w1, w2 |-> gr.w2, headGap |-> ClearGap, near |-> FALSE,
     slow |-> FALSE] :
      a \in {aa \in {-2, 0, 2} : Abs(car.angle + aa) <= AngleCap},
      d \in {dd \in {0, Metre} : car.x + dd <= Reach * Metre} }

\* world.step at the end of a jump: the chassis turns a quarter turn either
\* way or keeps its angle, or one wheel touches down or lifts off; a tilted
\* chassis may bring the head within the margin over the terrain.
LandStep(before, status) ==
  UNION {
    { [x |-> car.x, vx |-> 0, angle |-> car.angle + a, w1 |-> gr.w1, w2 |-> gr.w2,
       headGap |-> h, near |-> FALSE, slow |-> FALSE] :
        h \in (IF Tilted(car.angle + a) THEN {50, ClearGap} ELSE {ClearGap}) } :
    a \in {aa \in {-2, 0, 2} : Abs(car.angle + aa) <= AngleCap} }
  \cup
  { [x |-> car.x, vx |-> 0, angle |-> car.angle, w1 |-> w[1], w2 |-> w[2],
     headGap |-> ClearGap, near |-> FALSE, slow |-> FALSE] :
      w \in {<<a, gr.w2>> : a \in {gr.w1 - 1, gr.w1 + 1} \cap 0..MaxContacts}
            \cup {<<gr.w1, b>> : b \in {gr.w2 - 1, gr.w2 + 1} \cap 0..MaxContacts} }

\* world.step as the specification in hand follows it: over the whole
\* envelope, during a jump, at its end, with the throttle held, at rest, or
\* during a jump that goes forward.
Physics(scene, before, status) ==
  CASE scene = "jump" -> AirStep(before, status)
    [] scene = "land" -> LandStep(before, status)
    [] scene = "stunt" -> StuntStep(before, status)
    [] scene = "hold" -> HoldStep(before, status)
    [] scene = "rest" -> RestStep(before, status)
    [] OTHER -> WorldStep(before, status)

(* ------------------------------ stepGame ------------------------------- *)
\* Line 854: the angular velocity of the rear wheel in rad/s, read where the
\* torque curve needs it: at rest, or at the speed the motor aims at (with
\* the throttle held: as the car stands or rolls).
WheelSpins(scene, status, thr) ==
  IF status = "RUN" /\ thr # NaN /\ thr * 50 > ThrOne
  THEN IF scene = "hold" THEN {IF car.vx = 0 THEN 0 ELSE 26} ELSE {0, 26}
  ELSE {0}

\* Count of i in the sequence q.
Count(q, i) == Cardinality({k \in 1..Len(q) : q[k] = i})

\* The jump history after a tick: a0, a1 the air state before and after it.
JumpAfter(a0, a1, gained) ==
  IF ~a1.active THEN NoJump
  ELSE LET j == IF a0.active THEN jump ELSE NoJump
           d == Sign(a1.acc - (IF a0.active THEN a0.acc ELSE 0))
       IN [dir |-> IF d = 0 \/ d = j.dir THEN j.dir
                   ELSE IF j.dir = 0 THEN d ELSE 2,
           events |-> j.events + (IF gained > 0 THEN 1 ELSE 0),
           flips |-> j.flips + gained]

\* Lines 768-1144: one fixed simulation tick, its physics step that of scene.
StepGameIn(scene) ==
  /\ pc = "ticks"
  /\ accumulator >= DT
  /\ LET thr1 == SmoothThrottle(throttle, throttleTarget)
         groundedAny == gr.w1 + gr.w2 > 0
         s1 == StartOnInput(s, thr1)
         fl == FuelLoop(s1, throttleTarget, thr1, car.vx)
         s3 == AirCharge(BoostSpend(fl.s, boostHeld), groundedAny)
     IN \E omega \in WheelSpins(scene, fl.s.status, thr1) :
        \E ph \in Physics(scene, s.status, fl.s.status) :
          LET mt == Motor(fl.s.status, thr1, BoostActive(fl.s, boostHeld), car.angle,
                          car.vx, omega, gr.w1 > 0)
              af == AirFlips(ToastDecay(Scoring(s3, ph.x)), air, ph.angle, groundedAny)
              pk == PickupLoop([s |-> af.s, pickups |-> pickups, cf |-> cf,
                                rig |-> Joints(rig, mt),
                                got |-> <<>>, resumed |-> FALSE], 1, {<<ph.x, car.y>>})
              cr == CrashRules([s |-> pk.s, target |-> fl.target, throttle |-> thr1,
                                cf |-> pk.cf, air |-> af.air],
                               ph.angle, ph.headGap, ph.near, groundedAny)
              fz == EndFreeze(cr.s, cr.cf, ph.slow)
          IN /\ s' = cr.s
             /\ throttleTarget' = cr.target
             /\ throttle' = cr.throttle
             /\ gr' = [w1 |-> ph.w1, w2 |-> ph.w2]
             /\ contacts' = OpenContacts([w1 |-> ph.w1, w2 |-> ph.w2])
             /\ UNCHANGED terrain
             /\ cf' = fz
             /\ air' = cr.air
             /\ pickups' = pk.pickups
             /\ car' = [x |-> ph.x, y |-> car.y, angle |-> ph.angle,
                        vx |-> IF fz.frozen THEN 0 ELSE ph.vx]
             /\ rig' = FreezeRig(cr.s, cr.cf, fz, pk.rig)
             /\ accumulator' = Fl(accumulator - DT)
             /\ ticks' = ticks + 1
             /\ ev' = [op |-> "tick", from |-> s.status, ranOut |-> fl.ranOut,
                       gained |-> af.gained, got |-> pk.got,
                       resumed |-> pk.resumed, atTest |-> pk.s.status,
                       headGap |-> ph.headGap, dist0 |-> s.distanceM,
                       left |-> s.status \in Terminal /\ cr.s.status # s.status
                                /\ fires = 0,
                       thr |-> thr1, atDrain |-> s1.status, atMotor |-> fl.s.status,
                       motor |-> mt, fuelAt |-> af.s.fuel, slow |-> ph.slow,
                       boost0 |-> s.boost01, fuel0 |-> s.fuel, wheels |-> gr,
                       flying |-> air.active, held |-> boostHeld,
                       after |-> [cf |-> pk.cf, awake |-> pk.rig.awake,
                                  damping |-> pk.rig.damping]]
             /\ maxX' = Max(maxX, ph.x)
             /\ rewards' = [i \in DOMAIN rewards |->
                              Min(2, rewards[i] + Count(pk.got, i))]
             /\ fires' = IF cr.s.status \in Terminal /\ cr.s.status # s.status
                         THEN 0 ELSE fires
             /\ jump' = JumpAfter(air, cr.air, af.gained)
             /\ hud' = [hud EXCEPT !.raised = @ \/ (hud.on /\ (af.gained > 0 \/ pk.got # <<>>))]
  /\ frameTicks' = frameTicks + 1
  /\ clock' = [clock EXCEPT !.ops = @ + 1]
  /\ UNCHANGED <<boostHeld, track, seedRef, cam, snapshot, lastEndStatus, paused,
                 frameTime, pc, rendered, lastContact, over>>

StepGame == StepGameIn("drive")

(* ---------------------------- the frame loop --------------------------- *)
\* Frame times the host delivers (time between two frame callbacks).
FrameTimes == {DT, 2 * DT}

\* Line 1166: 1 - exp(-6 * frameTime), per mille.
SmoothPerMille(ft) ==
  IF ft <= 0 THEN 0
  ELSE IF 2 * ft <= DT THEN 49
  ELSE IF ft <= DT THEN 95
  ELSE IF ft <= 2 * DT THEN 181
  ELSE 777

\* Camera coordinates are kept on a grid coarser than any distance to the
\* target, rounded away from the old position: a step that moves at all
\* arrives.
CamGrid == 16 * Metre
Approach(cur, target, ft) ==
  LET d == target - cur
  IN cur + Sign(d) * Min(Abs(d),
                         CeilDiv(Abs(d) * SmoothPerMille(ft), 1000 * CamGrid) * CamGrid)

\* Lines 1146-1169: updateCamera.
updateCamera(c, body, ft, isMini) ==
  LET lookMul == IF isMini THEN 550 ELSE 600
      lookMax == IF isMini THEN 6 * Metre ELSE 8 * Metre
      lookAhead == Max(0, Min(lookMax, body.vx * lookMul))
  IN [x |-> Approach(c.x, body.x + lookAhead, ft),
      y |-> Approach(c.y, body.y + CamLift, ft)]

\* Variant of EndMarker: the marker is not consulted.
EndMarkerUnguarded(status, last) ==
  [fire |-> status \in Terminal,
   last |-> IF status \in {"IDLE", "RUN"} THEN "none" ELSE status]

\* Lines 656-674: the game-over marker.  fire: onGameOver is called in this
\* frame; last: lastEndStatusRef at the end of the frame.
EndMarker(status, last) ==
  LET fire == status \in Terminal /\ last # status
      l1 == IF fire THEN status ELSE last
  IN [fire |-> fire, last |-> IF status \in {"IDLE", "RUN"} THEN "none" ELSE l1]

\* Variant of Accumulate: the pause flag is not consulted.
AccumulateAlways(acc, ft, isPaused) == Fl(acc + Min(ft, MaxFrameTime))

\* Variant of Accumulate: the frame time is not clamped.
AccumulateUnclamped(acc, ft, isPaused) == IF isPaused THEN acc ELSE Fl(acc + ft)

\* Lines 636-639: the clamped frame time is added to the accumulator
\* unless paused.
Accumulate(acc, ft, isPaused) ==
  IF isPaused THEN acc ELSE Fl(acc + Min(ft, MaxFrameTime))

\* Lines 637 and 648: the camera follows only in a frame that is not paused.
FrameCamera(c, isPaused, body, ft, isMini) ==
  IF isPaused THEN c ELSE updateCamera(c, body, ft, isMini)

\* No onGameOver call yet.
NoOver == [status |-> "none", captured |-> "none", sent |-> "none"]

\* Line 660: captureSnapshot() ?? snapshotRef.current.
KeepSnapshot(captured, kept) == IF captured = "null" THEN kept ELSE captured

\* Lines 651-674: render, then the game-over event.  captureSnapshot (lines
\* 577-616) returns a data URL or, with no canvas, no 2D context or an
\* exception, null; the host's onGameOver returns or throws, and the frame
\* goes on the same way after either (lines 661-669).
GameOverStep ==
  /\ rendered' = TRUE
  /\ LET m == EndMarker(s.status, lastEndStatus)
     IN /\ lastEndStatus' = m.last
        /\ fires' = IF m.fire THEN Min(2, fires + 1) ELSE fires
        /\ IF m.fire
           THEN \E captured \in {"null", "png"}, threw \in BOOLEAN :
                  /\ snapshot' = KeepSnapshot(captured, snapshot)
                  /\ over' = [status |-> s.status, captured |-> captured,
                              sent |-> snapshot']
           ELSE /\ snapshot' = snapshot
                /\ over' = over

\* Line 675: 1 / 30, and a time since the last emission longer than that.
EmitEvery == FlDiv(Second, 30)
LongAgo == 2 * EmitEvery

\* The emission bookkeeping of the loop before its first frame (lines
\* 568-571).  on: it is followed; due, changed, raised, emitted: what the
\* last frame found and did (raised: a tick of the frame set a toast).
HudOff ==
  [on |-> FALSE, since |-> LongAgo, status |-> "IDLE", toastT |-> 0,
   due |-> FALSE, changed |-> FALSE, raised |-> FALSE, emitted |-> FALSE]

\* Line 676: emitImportant.
Important(st, h) == st.status # h.status \/ (st.toastT > 0 /\ st.toastT # h.toastT)

\* Lines 675-683: the end of a frame ft after the one before: onState is
\* called if emission is due or important.
EmitStep(h, st, ft) ==
  LET since == Min(LongAgo, h.since + ft)
      due == since > EmitEvery
      emit == due \/ Important(st, h)
  IN IF ~h.on THEN h
     ELSE [h EXCEPT !.since = IF emit THEN 0 ELSE since,
                    !.status = IF emit THEN st.status ELSE @,
                    !.toastT = IF emit THEN st.toastT ELSE @,
                    !.due = due, !.changed = st.status # h.status,
                    !.emitted = emit]

\* Lines 618-640: a frame callback begins while not paused; its frame time
\* is one of fts, and no frame is begun that would run past tick cap.
BeginFrame(fts, cap) ==
  /\ pc = "idle"
  /\ ~paused
  /\ \E ft \in fts :
       /\ ticks + Accumulate(accumulator, ft, paused) \div DT <= cap
       /\ frameTime' = Min(ft, MaxFrameTime)
       /\ accumulator' = Accumulate(accumulator, ft, paused)
       /\ clock' = [time |-> clock.time + Min(ft, MaxFrameTime), ops |-> clock.ops + 1]
  /\ pc' = "ticks"
  /\ rendered' = FALSE
  /\ frameTicks' = 0
  /\ hud' = [hud EXCEPT !.raised = FALSE]
  /\ UNCHANGED <<run, cam, snapshot, lastEndStatus, paused, ticks, ev, maxX, rewards,
                 fires, jump, aside, over>>

LoopBegin == BeginFrame(FrameTimes, MaxTicks)

\* Lines 647-683: the rest of the frame callback once the accumulator is
\* drained: camera, render, game-over event, HUD emission.
LoopEnd ==
  /\ pc = "ticks"
  /\ accumulator < DT
  /\ \E isMini \in BOOLEAN : cam' = FrameCamera(cam, paused, car, frameTime, isMini)
  /\ GameOverStep
  /\ hud' = EmitStep(hud, s, frameTime)
  /\ pc' = "idle"
  /\ frameTime' = 0
  /\ frameTicks' = 0
  /\ UNCHANGED <<run, accumulator, paused, ticks, ev, maxX, rewards, jump, aside, clock>>

\* Lines 618-683: a whole frame callback while paused.
LoopPaused ==
  /\ pc = "idle"
  /\ paused
  /\ \E ft \in FrameTimes, isMini \in BOOLEAN :
       /\ accumulator' = Accumulate(accumulator, ft, paused)
       /\ cam' = FrameCamera(cam, paused, car, Min(ft, MaxFrameTime), isMini)
       /\ hud' = EmitStep([hud EXCEPT !.raised = FALSE], s, ft)
  /\ GameOverStep
  /\ UNCHANGED <<run, frameTime, pc, paused, ticks, ev, maxX, rewards, jump, aside,
                 clock, frameTicks>>

(* ------------------------- the imperative handle ----------------------- *)
ThrottleInputs == {-2 * ThrOne, 0, ThrOne}

\* Lines 757-759: setThrottle, called with one of inputs.
SetThrottleIn(inputs) ==
  /\ pc = "idle"
  /\ \E t \in inputs : throttleTarget' = MathMax(-ThrOne, MathMin(ThrOne, t))
  /\ UNCHANGED <<s, throttle, boostHeld, gr, cf, air, pickups, track, seedRef, car,
                 rig, loopVars, paused, hist, aside, watch>>

SetThrottle == SetThrottleIn(ThrottleInputs)

\* Lines 760-762.  The page's boost button is disabled unless the status is
\* RUN and boost01 is at least 0.05 (src/app/page.tsx, line 1100); releasing
\* it is always possible.
SetBoost ==
  /\ pc = "idle"
  /\ \E on \in BOOLEAN :
       /\ on => s.status = "RUN" /\ s.boost01 * 20 >= BoostOne
       /\ boostHeld' = on
  /\ UNCHANGED <<s, throttleTarget, throttle, gr, cf, air, pickups, track, seedRef,
                 car, rig, loopVars, paused, hist, aside, watch>>

\* Lines 345-347: the paused prop changes.
SetPaused ==
  /\ pc = "idle"
  /\ paused' = ~paused
  /\ rendered' = FALSE
  /\ UNCHANGED <<run, loopVars, ticks, ev, maxX, rewards, fires, jump, aside, watch>>

\* Values of the seed prop, and the world built for each.
SeedProps == {NoSeed}
Worlds == NoSeed :> buildWorld(resolveSeed(NoSeed))

\* Lines 376-412 and 414-549: reset and buildWorld (also run by a change of
\* the seed prop, lines 353-357).
Reset ==
  /\ pc = "idle"
  /\ \E p \in SeedProps :
       LET c == ResetControls(boostHeld)
           w == Worlds[p]
       IN /\ throttleTarget' = c.target
          /\ throttle' = c.throttle
          /\ boostHeld' = c.boostHeld
          /\ seedRef' = resolveSeed(p)
          /\ track' = w.track
          /\ car' = w.car
          /\ rig' = w.rig
          /\ cam' = w.cam
          /\ pickups' = w.pickups
          /\ gr' = w.gr
  /\ snapshot' = "null"
  /\ lastEndStatus' = "none"
  /\ cf' = FreshFreeze
  /\ air' = FreshAir
  /\ s' = FreshState
  /\ ticks' = 0
  /\ ev' = [NoEvent EXCEPT !.op = "reset", !.from = s.status,
                           !.left = s.status \in Terminal /\ fires = 0]
  /\ maxX' = 0
  /\ rewards' = [i \in DOMAIN pickups' |-> 0]
  /\ fires' = 0
  /\ jump' = NoJump
  /\ contacts' = {}
  /\ lastContact' = NoContact
  /\ UNCHANGED terrain
  /\ over' = NoOver
  /\ clock' = [time |-> accumulator, ops |-> 0]
  /\ UNCHANGED <<accumulator, frameTime, pc, paused, rendered, frameTicks, hud>>

(* ---------------------------- specification ---------------------------- *)
\* A run is followed from the state after mount (reset, lines 353-357), and
\* from later points of a run that lie further on than MaxTicks reaches:
\* driving near the spawn point with the tank nearly empty and the front
\* wheel off the ground; crashed, and out of fuel, shortly before the freeze.
LowFuel == FuelOne \div 300
FreshStart ==
  [status |-> "IDLE", fuel |-> FuelFull, w1 |-> 0, w2 |-> 0, t |-> 0,
   last |-> "none", fires |-> 0, shot |-> "null", hud |-> FALSE]
StartPoints ==
  { FreshStart,
    [status |-> "RUN", fuel |-> LowFuel, w1 |-> 1, w2 |-> 0, t |-> 0,
     last |-> "none", fires |-> 0, shot |-> "null", hud |-> FALSE],
    [status |-> "CRASH", fuel |-> FuelFull, w1 |-> 1, w2 |-> 1, t |-> SettleCrash - 1,
     last |-> "CRASH", fires |-> 1, shot |-> "null", hud |-> FALSE],
    [status |-> "OUT_OF_FUEL", fuel |-> 0, w1 |-> 1, w2 |-> 1, t |-> SettleOutOfFuel - 1,
     last |-> "OUT_OF_FUEL", fires |-> 1, shot |-> "null", hud |-> FALSE] }

\* The rig at a start point: as built, or as the ticks before left it, the
\* pedals untouched.
StartRig(sp) ==
  IF sp.status = "IDLE" /\ sp.t = 0 THEN Worlds[NoSeed].rig
  ELSE LET r == Joints(FreshRig, Motor(sp.status, 0, FALSE, 0, 0, 0, sp.w1 > 0))
       IN IF sp.t > 0 THEN [r EXCEPT !.damping = "settle"] ELSE r

InitAt(sp) ==
    /\ s = [FreshState EXCEPT !.status = sp.status, !.fuel = sp.fuel]
    /\ throttleTarget = 0
    /\ throttle = 0
    /\ boostHeld = FALSE
    /\ gr = [w1 |-> sp.w1, w2 |-> sp.w2]
    /\ cf = [t |-> sp.t, frozen |-> FALSE]
    /\ air = FreshAir
    /\ pickups = Worlds[NoSeed].pickups
    /\ track = Worlds[NoSeed].track
    /\ seedRef = resolveSeed(NoSeed)
    /\ car = Worlds[NoSeed].car
    /\ rig = StartRig(sp)
    /\ cam = Worlds[NoSeed].cam
    /\ snapshot = sp.shot
    /\ lastEndStatus = sp.last
    /\ paused = FALSE
    /\ accumulator = 0
    /\ frameTime = 0
    /\ pc = "idle"
    /\ ticks = 0
    /\ ev = NoEvent
    /\ maxX = 0
    /\ rewards = [i \in DOMAIN pickups |-> 0]
    /\ fires = sp.fires
    /\ rendered = FALSE
    /\ jump = NoJump
    /\ contacts = OpenContacts(gr)
    /\ lastContact = NoContact
    /\ builders = [b \in Builders |-> NoBuild]
    /\ probe = NoProbe
    /\ over = NoOver
    /\ clock = [time |-> 0, ops |-> 0]
    /\ frameTicks = 0
    /\ hud = IF sp.hud THEN [HudOff EXCEPT !.on = TRUE, !.status = sp.status]
             ELSE HudOff

Init == \E sp \in StartPoints : InitAt(sp)

Next ==
  \/ SetThrottle
  \/ SetBoost
  \/ SetPaused
  \/ Reset
  \/ LoopBegin
  \/ LoopPaused
  \/ StepGame
  \/ LoopEnd

Spec == Init /\ [][Next]_vars

(* ------------------------------- a jump -------------------------------- *)
\* Ticks followed in a jump.
AirTicks == 10

\* The run is under way and the car has just left the ground.
AirStart ==
  [status |-> "RUN", fuel |-> FuelFull, w1 |-> 0, w2 |-> 0, t |-> 0,
   last |-> "none", fires |-> 0, shot |-> "null", hud |-> FALSE]

AirFrame == BeginFrame({DT}, AirTicks)
AirTick == StepGameIn("jump")

InitAir == InitAt(AirStart)

NextAir ==
  \/ AirFrame
  \/ AirTick
  \/ LoopEnd

SpecAir == InitAir /\ [][NextAir]_vars

(* ----------------------- the throttle held at 1 ------------------------ *)
\* Ticks within which a full tank is to run dry at full throttle:
\* 100 / ((0.16 + 1.35) * DT) is 3974, and the throttle needs a few ticks to
\* come up.
HoldBound == 4000

\* setThrottle(1) at the start of the run.
HoldThrottle ==
  /\ s.status = "IDLE"
  /\ throttleTarget = 0
  /\ SetThrottleIn({ThrOne})

\* Frames of one tick, for as long as the throttle is held.
HoldFrame ==
  /\ throttleTarget = ThrOne
  /\ BeginFrame({DT}, HoldBound + 2)

HoldTick == StepGameIn("hold")

InitHold == InitAt(FreshStart)

NextHold ==
  \/ HoldThrottle
  \/ HoldFrame
  \/ HoldTick
  \/ LoopEnd

SpecHold == InitHold /\ [][NextHold]_vars

(* ------------------------- arguments of setThrottle -------------------- *)
\* setThrottle is called with any number while the car waits at the start:
\* NaN, numbers far outside [-1, 1] (as the infinities, they compare below
\* or above every bound), a number just outside and one inside.  What a NaN
\* throttle does to a run under way (fuel, motor speed) is not followed.
WildInputs == {NaN, -(1000 * ThrOne), -(ThrOne + 1), 3, 1000 * ThrOne}

InputTicks == 6

WildThrottle ==
  /\ s.status = "IDLE"
  /\ SetThrottleIn(WildInputs)

InputFrame == BeginFrame({DT}, InputTicks)
InputTick == StepGameIn("rest")

InitInput == InitAt(FreshStart)

NextInput ==
  \/ WildThrottle
  \/ InputFrame
  \/ InputTick
  \/ LoopEnd
  \/ Reset

SpecInput == InitInput /\ [][NextInput]_vars

(* ------------------------- contacts of the wheels ---------------------- *)
\* The listeners are followed one call at a time, from the world as built
\* and through rebuilds of the world.
InitContacts == InitAt(FreshStart)

NextContacts ==
  \/ BeginContact
  \/ EndContact
  \/ Reset

SpecContacts == InitContacts /\ [][NextContacts]_vars

(* ------------------------ a second game-over event -------------------- *)
\* Ticks followed after the first game-over event.
OverTicks == 3

\* The tank ran dry near the spawn point with the front wheel in the air:
\* onGameOver was called, with a snapshot.
OverStart ==
  [status |-> "OUT_OF_FUEL", fuel |-> 0, w1 |-> 1, w2 |-> 0, t |-> 0,
   last |-> "OUT_OF_FUEL", fires |-> 1, shot |-> "png", hud |-> FALSE]

OverFrame == BeginFrame({DT}, OverTicks)

InitOver == InitAt(OverStart)

NextOver ==
  \/ OverFrame
  \/ StepGame
  \/ LoopEnd
  \/ Reset

SpecOver == InitOver /\ [][NextOver]_vars

(* --------------------------- uneven frame times ------------------------ *)
\* Ticks followed.
LoopTicks == 20

\* Times between two frame callbacks: half a tick, a tick, the number next
\* below 0.05 s (three ticks to the eye), and 0.3125 s (a tab that was in
\* the background).
LoopTimes == {DT \div 2, DT, 8 * (Second \div 160), 5 * (Second \div 16)}

LoopFrame == BeginFrame(LoopTimes, LoopTicks)
LoopTick == StepGameIn("rest")

InitLoop == InitAt(FreshStart)

NextLoop ==
  \/ LoopFrame
  \/ LoopTick
  \/ LoopEnd
  \/ SetPaused
  \/ LoopPaused

SpecLoop == InitLoop /\ [][NextLoop]_vars

(* ----------------------------- HUD emission ---------------------------- *)
\* Ticks followed.
HudTicks == 3

\* The run is under way at the spawn point, the first coin a metre ahead.
HudStart ==
  [status |-> "RUN", fuel |-> FuelFull, w1 |-> 1, w2 |-> 1, t |-> 0,
   last |-> "none", fires |-> 0, shot |-> "null", hud |-> TRUE]

\* Frames half a tick and a tick apart.
HudFrame == BeginFrame({DT \div 2, DT}, HudTicks)

InitHud == InitAt(HudStart)

NextHud ==
  \/ HudFrame
  \/ StepGame
  \/ LoopEnd

SpecHud == InitHud /\ [][NextHud]_vars

(* ---------------------------- a jump forward --------------------------- *)
\* Ticks followed.
StuntTicks == 6

StuntFrame == BeginFrame({DT}, StuntTicks)
StuntTick == StepGameIn("stunt")

InitStunt == InitAt(AirStart)

NextStunt ==
  \/ StuntFrame
  \/ StuntTick
  \/ LoopEnd

SpecStunt == InitStunt /\ [][NextStunt]_vars

(* --------------------------- a jump that ends -------------------------- *)
\* Ticks followed.
LandTicks == 6

LandFrame == BeginFrame({DT}, LandTicks)
LandTick == StepGameIn("land")

InitLand == InitAt(AirStart)

NextLand ==
  \/ LandFrame
  \/ LandTick
  \/ LoopEnd

SpecLand == InitLand /\ [][NextLand]_vars

(* ------------------------- the end of a run ---------------------------- *)
\* Ticks followed.
SettleTicks == 3

\* The run is over and the freeze timer is about to run out.
SettleStarts == {sp \in StartPoints : sp.status \in Terminal}

SettleFrame == BeginFrame({DT}, SettleTicks)

InitSettle == \E sp \in SettleStarts : InitAt(sp)

NextSettle ==
  \/ SetThrottle
  \/ SettleFrame
  \/ StepGame
  \/ LoopEnd

SpecSettle == InitSettle /\ [][NextSettle]_vars

(* ------------------------ a jump without fuel -------------------------- *)
\* Ticks followed.
CoastTicks == 6

\* The fuel ran out as the car left the ground.
CoastStart ==
  [status |-> "OUT_OF_FUEL", fuel |-> 0, w1 |-> 0, w2 |-> 0, t |-> 0,
   last |-> "OUT_OF_FUEL", fires |-> 1, shot |-> "null", hud |-> FALSE]

CoastFrame == BeginFrame({DT}, CoastTicks)
CoastTick == StepGameIn("stunt")

InitCoast == InitAt(CoastStart)

NextCoast ==
  \/ CoastFrame
  \/ CoastTick
  \/ LoopEnd

SpecCoast == InitCoast /\ [][NextCoast]_vars

(* -------------------------- builds of the world ------------------------- *)
\* Passes of buildTrack's loop taken in one step of a build.
Stretch == 150

\* Calls of sampleTrackY followed just below each of the last samples.
Probes == 36

\* Values of the seed prop: undefined, NaN, 0.5 and 0.
TrackSeedProps ==
  { NoSeed,
    [type |-> "number", finite |-> FALSE, milli |-> 0],
    [type |-> "number", finite |-> TRUE, milli |-> 500],
    [type |-> "number", finite |-> TRUE, milli |-> 0] }

\* Variant of NewRnd: the generator goes on from where the last build left it.
NewRndStale(seed, stale) == stale

\* Lines 67, 85 and 521: the variable of a new closure of mulberry32; stale
\* is the variable of the closure of the build before.
NewRnd(seed, stale) == seed

\* Lines 414-416: buildWorld is entered (by reset, or by a change of the seed
\* prop) and buildTrack declares its variables.
Enter(b) ==
  /\ builders[b].stage \in {"none", "done"}
  /\ \E p \in TrackSeedProps :
       LET old == builders[b]
           seed == resolveSeed(p)
       IN builders' =
            [builders EXCEPT ![b] =
               [NoBuild EXCEPT !.stage = "loop", !.seed = seed,
                               !.rebuilt = old.rebuilt
                                           \/ (old.stage = "done" /\ old.seed # seed),
                               !.g = GenStart(NewRnd(seed, old.g.rng)),
                               !.prnd = old.prnd]]
  /\ probe' = NoProbe
  /\ UNCHANGED <<run, loopVars, paused, hist, contacts, lastContact, watch>>

\* Lines 166-213: passes of the loop of buildTrack.
Extend(b) ==
  /\ builders[b].stage = "loop"
  /\ \E h \in {LoopSteps(builders[b].g, Stretch)} :
       builders' =
          [builders EXCEPT ![b] =
             IF h.x > TRACK_X1
             THEN [@ EXCEPT !.g = h, !.stage = "smooth", !.ys = h.ys]
             ELSE [@ EXCEPT !.g = h]]
  /\ UNCHANGED <<run, loopVars, paused, hist, contacts, lastContact, watch, probe>>

\* Lines 216-220: one pass of the smoothing.
Smoothing(b) ==
  /\ builders[b].stage = "smooth"
  /\ \E ys \in {Smooth(builders[b].ys)} :
       builders' =
          [builders EXCEPT ![b] =
             IF @.k + 1 = 2
             THEN [@ EXCEPT !.k = 2, !.ys = ys, !.gen = ys, !.stage = "pad"]
             ELSE [@ EXCEPT !.k = @ + 1, !.ys = ys]]
  /\ UNCHANGED <<run, loopVars, paused, hist, contacts, lastContact, watch, probe>>

\* The position of buildWorld when the coin loop (lines 525-532) is at i.
CoinStage(i) == IF i * Metre <= TRACK_X1 - 40 * Metre THEN "coins" ELSE "fuel"

\* The position of buildWorld when the fuel loop (lines 535-541) is at i.
FuelStage(i) == IF i * Metre <= TRACK_X1 - 60 * Metre THEN "fuel" ELSE "done"

\* Lines 223-244 and 521-522: the start pad; buildTrack returns, and
\* buildWorld makes the closure prnd.
Pad(b) ==
  /\ builders[b].stage = "pad"
  /\ LET old == builders[b]
     IN builders' =
          [builders EXCEPT ![b] =
             [old EXCEPT !.track = [xs |-> old.g.xs, ys |-> StartPad(old.g.xs, old.ys)],
                         !.prnd = NewRnd(Xor32(old.seed, PickupSalt), old.prnd),
                         !.i = 12, !.stage = CoinStage(12)]]
  /\ UNCHANGED <<run, loopVars, paused, hist, contacts, lastContact, watch, probe>>

\* The height of the pickups over the track, and of the arch of the cans.
PickupRise == (205 * High) \div 100
ArchRise == High \div 4

\* Lines 526-531: the three coins of the cluster at i, for the draw r.
CoinCluster(tr, i, r) ==
  LET x == i * Metre + ((2 * Frac(r) - Half) * (4 * Metre)) \div Half
  IN << [kind |-> "coin", x |-> x, y |-> sampleTrackY(tr, x) + PickupRise,
         value |-> CoinValue],
        [kind |-> "coin", x |-> x + 2 * Metre,
         y |-> sampleTrackY(tr, x + 2 * Metre) + PickupRise, value |-> CoinValue],
        [kind |-> "coin", x |-> x + 4 * Metre,
         y |-> sampleTrackY(tr, x + 4 * Metre) + PickupRise, value |-> CoinValue] >>

\* Lines 536-540: the fuel can at i, for the draw r.
FuelCan(tr, i, r) ==
  LET x == i * Metre + ((2 * Frac(r) - Half) * (7 * Metre)) \div Half
      arch == (ArchRise * SinMille((i * Half) \div (2 * 62))) \div 1000
  IN [kind |-> "fuel", x |-> x, y |-> sampleTrackY(tr, x) + PickupRise + arch,
      value |-> FuelValue]

\* Lines 525-532: one pass of the coin loop.
Coins(b) ==
  /\ builders[b].stage = "coins"
  /\ \E r \in {mulberry32(builders[b].prnd)} :
       builders' =
          [builders EXCEPT ![b] =
             [@ EXCEPT !.prnd = r.seed,
                       !.pickups = @ \o CoinCluster(builders[b].track, builders[b].i, r.out),
                       !.i = IF CoinStage(@ + 24) = "coins" THEN @ + 24 ELSE 32,
                       !.stage = IF CoinStage(builders[b].i + 24) = "coins"
                                 THEN "coins" ELSE FuelStage(32)]]
  /\ UNCHANGED <<run, loopVars, paused, hist, contacts, lastContact, watch, probe>>

\* Lines 535-542: one pass of the fuel loop.
Cans(b) ==
  /\ builders[b].stage = "fuel"
  /\ \E r \in {mulberry32(builders[b].prnd)} :
       builders' =
          [builders EXCEPT ![b] =
             [@ EXCEPT !.prnd = r.seed,
                       !.pickups = Append(@, FuelCan(builders[b].track, builders[b].i, r.out)),
                       !.i = @ + 62,
                       !.stage = FuelStage(builders[b].i + 62)]]
  /\ UNCHANGED <<run, loopVars, paused, hist, contacts, lastContact, watch, probe>>

\* Positions asked of sampleTrackY: off both ends of the track, on its first
\* and last samples, on and beside the start pad, and a millimetre below
\* each of the last samples.
QueryXs ==
  {TRACK_X0 - Metre, TRACK_X0 - 1, TRACK_X0, TRACK_X0 + 1, PAD_X0 - PAD_BLEND \div 2,
   0, PAD_X1 + 1, TRACK_X1 - 1, TRACK_X1, TRACK_X1 + 1, TRACK_X1 + Metre}
  \cup {TRACK_X1 - TRACK_DX * j - 1 : j \in 1..Probes}
  \cup {TRACK_X1 - TRACK_DX * j + 100 : j \in 1..Probes}

\* Lines 247-256: a call of sampleTrackY on the track built by a.
Sample ==
  /\ \A b \in Builders : builders[b].stage = "done"
  /\ \E x \in QueryXs :
       LET tr == builders["a"].track
       IN probe' = [set |-> TRUE, x |-> x, i0 |-> Bracket(tr, x),
                    y |-> sampleTrackY(tr, x)]
  /\ UNCHANGED <<run, loopVars, paused, hist, contacts, lastContact, watch, builders>>

InitTrack == InitAt(FreshStart)

NextTrack ==
  \/ \E b \in Builders : Enter(b)
  \/ \E b \in Builders : Extend(b)
  \/ \E b \in Builders : Smoothing(b)
  \/ \E b \in Builders : Pad(b)
  \/ \E b \in Builders : Coins(b)
  \/ \E b \in Builders : Cans(b)
  \/ Sample

SpecTrack == InitTrack /\ [][NextTrack]_vars

(* ------------------------------- claims -------------------------------- *)
TickMoves ==
  { <<"IDLE", "RUN">>, <<"RUN", "CRASH">>, <<"RUN", "OUT_OF_FUEL">>,
    <<"OUT_OF_FUEL", "RUN">> }

\* C1, as amended: comparing the status before and after one tick, IDLE is
\* left only for RUN, RUN only for CRASH or OUT_OF_FUEL, OUT_OF_FUEL only for
\* RUN or, when the tick that refuels also meets the crash test, for CRASH;
\* CRASH is never left.
C1_StatusSteps ==
  ev.op = "tick" =>
    \/ s.status = ev.from
    \/ <<ev.from, s.status>> \in TickMoves \cup {<<"OUT_OF_FUEL", "CRASH">>}

\* A tick that began OUT_OF_FUEL took the fuel can and ended in CRASH.
C1_Witness ==
  ev.op = "tick" /\ ev.from = "OUT_OF_FUEL" /\ ev.resumed /\ s.status = "CRASH"

\* C1 as stated: from OUT_OF_FUEL a tick reaches no status but RUN.
C1_AsStated ==
  ev.op = "tick" => (s.status = ev.from \/ <<ev.from, s.status>> \in TickMoves)

C4_Distance ==
  /\ s.distanceM = maxX
  /\ ev.op = "tick" => s.distanceM >= ev.dist0

\* The chassis moved back behind the score, which stayed.
C4_Witness ==
  ev.op = "tick" /\ car.x < ev.dist0 /\ s.distanceM = ev.dist0 /\ ev.dist0 > 0

\* C5: each pickup's reward is applied at most once, a pickup is taken
\* exactly when its reward has been applied (so taken never reverts), and
\* the collection keeps every pickup of the layout.
C5_CollectedOnce ==
  /\ \A i \in DOMAIN pickups : rewards[i] <= 1 /\ (pickups[i].taken <=> rewards[i] = 1)
  /\ [i \in DOMAIN pickups |-> [pickups[i] EXCEPT !.taken = FALSE]] = Layout(track)

\* The last tick ran the pickup loop with the chassis inside the radius of a
\* pickup that was already taken, and rewarded nothing.
C5_Witness ==
  /\ ev.op = "tick" /\ ev.got = <<>>
  /\ \E i \in DOMAIN pickups :
       pickups[i].taken /\ Hit(pickups[i], {<<car.x, car.y>>})

FreshRun ==
  /\ s.status = "IDLE" /\ s.distanceM = 0 /\ s.coins = 0 /\ s.fuel = 100 * FuelOne
  /\ s.boost01 = 0 /\ s.flips = 0 /\ s.airtimeS = 0
  /\ s.toast = <<"none", 0, 0>> /\ s.toastT = 0
  /\ throttle = 0 /\ throttleTarget = 0 /\ boostHeld = FALSE
  /\ gr = [w1 |-> 0, w2 |-> 0]
  /\ cf = [t |-> 0, frozen |-> FALSE]
  /\ air = [active |-> FALSE, t |-> 0, acc |-> 0, lastAngle |-> 0, flipCount |-> 0]
  /\ \A i \in DOMAIN pickups : ~pickups[i].taken
  /\ car.angle = 0 /\ car.x = 0 /\ car.vx = 0
  /\ car.y = sampleTrackY(track, 0) \div Fine + 1550
  /\ cam = [x |-> car.x, y |-> car.y]
  /\ snapshot = "null" /\ lastEndStatus = "none"

\* C9: reset() leaves the initial state of a run, whatever state it is
\* called in.
C9_ResetFresh == [][Reset => FreshRun']_vars

\* reset() was called in status CRASH, and the run is fresh.
C9_Witness == ev.op = "reset" /\ ev.from = "CRASH" /\ FreshRun

\* C10: a frame that runs while the pause flag is set runs no tick and no
\* camera update: RunState, pickups, camera and accumulator are unchanged,
\* and render is called.
C10_PausedFrame ==
  [][(paused /\ ~(SetThrottle \/ SetBoost \/ SetPaused \/ Reset))
       => (UNCHANGED <<run, cam, accumulator, ticks>> /\ rendered')]_vars

\* A frame has run since the pause flag was set, in a run under way with
\* the throttle applied and the chassis away from the spawn point.
C10_Witness ==
  paused /\ rendered /\ s.status = "RUN" /\ throttle # 0 /\ car.x # 0

\* C6, as amended: when the rotation accumulated in one direction during
\* one jump is exactly 4 pi, the jump has earned two flips, in two separate
\* reward events of one flip each (5 coins, 3 fuel and a toast each): no
\* tick awards more than one flip.
C6_FlipEvents ==
  /\ ev.op = "tick" => ev.gained <= 1
  /\ (air.active /\ jump.dir \in {-1, 1} /\ Abs(air.acc) = 4 * Pi)
       => (jump.flips = 2 /\ jump.events = 2)

\* A jump has turned 4 pi one way: two flips in two events, 10 coins.
C6_Witness ==
  /\ air.active /\ jump.dir = 1 /\ air.acc = 4 * Pi
  /\ jump.flips = 2 /\ jump.events = 2
  /\ s.flips = 2 /\ s.coins = 2 * FlipCoinBonus

\* C6 as stated: the two flips come as a single combined reward event.
C6_AsStated ==
  (air.active /\ jump.dir \in {-1, 1} /\ Abs(air.acc) = 4 * Pi)
    => (jump.flips = 2 /\ jump.events = 1)

\* C8: with the throttle target held at 1 from the start of the run and no
\* fuel added, the run is out of fuel (with fuel 0) or crashed within
\* HoldBound ticks.
C8_RunsDry ==
  /\ s.status \in {"IDLE", "RUN"} => ticks < HoldBound
  /\ s.status = "OUT_OF_FUEL" => s.fuel = 0

\* The tank ran dry in the last tick, late in the bound, with no crash.
C8_Witness ==
  /\ ev.op = "tick" /\ ev.ranOut /\ s.status = "OUT_OF_FUEL" /\ s.fuel = 0
  /\ ticks * 100 > HoldBound * 97

\* C11: for every interleaving of begin-contact and end-contact events, the
\* counter of each wheel is the number of its contacts begun and not ended,
\* it is never negative, the wheel counts as grounded exactly when a contact
\* of its is open, and the end of one of several open contacts leaves the
\* wheel grounded.
C11_ContactCount ==
  /\ \A w \in Wheels :
       /\ gr[w] = Cardinality(Of(contacts, w))
       /\ gr[w] >= 0
       /\ Grounded(gr, w) <=> Of(contacts, w) # {}
  /\ (lastContact.kind = "end" /\ lastContact.body \in Wheels /\ lastContact.open >= 2)
       => Grounded(gr, lastContact.body)

\* One of two open contacts of the rear wheel ended while the front wheel
\* was in the air: the car is still grounded.
C11_Witness ==
  /\ lastContact = [kind |-> "end", body |-> "w1", open |-> 2]
  /\ gr.w1 = 1 /\ gr.w2 = 0 /\ Grounded(gr, "w1")

\* C12 as stated: after any sequence of setThrottle calls with numeric
\* arguments, the throttle target and the smoothed throttle are within
\* [-1, 1].
C12_AsStated ==
  /\ throttleTarget \in (-ThrOne)..ThrOne
  /\ throttle \in (-ThrOne)..ThrOne

\* C13: when the capture of the snapshot fails at a terminal transition,
\* the game-over event of that transition carries a null snapshot, also in
\* a run that produced a snapshot at an earlier terminal transition.
C13_AsStated == over.captured = "null" => over.sent = "null"

\* C14: after every frame the accumulator is at least 0 and less than DT,
\* no frame runs more than 15 ticks, and the ticks run are the whole
\* multiples of DT in the clamped time of the unpaused frames.
C14_AsStated ==
  /\ frameTicks <= 15
  /\ pc = "idle" => /\ 0 <= accumulator /\ accumulator < DT
                    /\ ticks = clock.time \div DT

\* The most one sum or difference of the accumulator is off by: half the
\* distance between neighbouring numbers at the largest value it takes.
HalfUlp == Ulp(MaxFrameTime + DT) \div 2

\* C14 (amended): after every frame the accumulator is at least 0 and less
\* than DT; no frame runs more than 16 ticks; the ticks run times DT and
\* the accumulator make up the clamped time of the unpaused frames up to
\* the rounding of each sum and difference.
C14_Drain ==
  /\ frameTicks <= 16
  /\ pc = "idle" => 0 <= accumulator /\ accumulator < DT
  /\ Abs(ticks * DT + accumulator - clock.time) <= clock.ops * HalfUlp

\* A frame has run 16 ticks.
C14_Witness == pc = "ticks" /\ frameTicks = 16 /\ accumulator < DT

\* C15: a frame emits the state exactly when more than 1/30 s has passed
\* since the last emission, or the status differs from the one last
\* emitted, or a tick of the frame raised a toast; a frame in which only the
\* countdown of a toast went on does not emit.
C15_AsStated ==
  hud.on /\ pc = "idle" => (hud.emitted <=> hud.due \/ hud.changed \/ hud.raised)

\* The coins of the pickups rewarded in a tick (got: their indices).
RECURSIVE CoinsGot(_, _)
CoinsGot(got, ps) ==
  IF got = <<>> THEN 0
  ELSE (IF ps[Head(got)].kind = "coin" THEN ps[Head(got)].value ELSE 0)
       + CoinsGot(Tail(got), ps)

\* C16: from tick to tick coins and flips never decrease; coins grow by the
\* value of each coin picked up and by 5 for each flip completed in the
\* tick, and by nothing else; flips grow by the flips completed in the tick.
C16_Scores ==
  [][ticks' = ticks + 1 =>
       /\ s'.coins >= s.coins
       /\ s'.flips >= s.flips
       /\ s'.coins = s.coins + CoinsGot(ev'.got, pickups) + 5 * ev'.gained
       /\ s'.flips = s.flips + ev'.gained]_vars

\* A jump has completed a flip after its first coin.
C16_Witness ==
  /\ ev.op = "tick" /\ ev.gained = 1
  /\ s.flips = 1 /\ s.coins = CoinValue + FlipCoinBonus

Between(h, a, b) == Min(a, b) <= h /\ h <= Max(a, b)

\* C17, as stated: sampleTrackY never extrapolates: at or below the first
\* sample x it returns the first height, at or above the last sample x the
\* last height, and in between it reads valid adjacent indices and returns a
\* value between the heights of the two samples that bracket x.
C17_AsStated ==
  probe.set =>
    LET tr == builders["a"].track
        n == Len(tr.xs)
    IN /\ probe.x <= tr.xs[1] => probe.y = tr.ys[1]
       /\ probe.x >= tr.xs[n] => probe.y = tr.ys[n]
       /\ tr.xs[1] < probe.x /\ probe.x < tr.xs[n] =>
            /\ probe.i0 \in 0..(n - 2)
            /\ \E i \in 1..(n - 1) :
                 /\ tr.xs[i] <= probe.x
                 /\ probe.x <= tr.xs[i + 1]
                 /\ Between(probe.y, tr.ys[i], tr.ys[i + 1])

Done(b) == builders[b].stage = "done"

Slack == Fine \div 5

\* The steps of ys into each sample stay within the maxStep, and their
\* changes within the curvMax, of that sample or the one before it.
Capped(ys, caps) ==
  \A i \in 1..(Len(ys) - 1) :
    /\ Abs(ys[i + 1] - ys[i]) <= Max(caps[i][1], caps[i + 1][1]) + Slack
    /\ i > 1 => Abs((ys[i + 1] - ys[i]) - (ys[i] - ys[i - 1]))
                  <= Max(caps[i][2], caps[i + 1][2]) + Slack

\* C19, as stated: the height step between consecutive samples is at most
\* maxStep and the change between consecutive steps at most curvMax, in
\* the track as the loop leaves it (across changes of segment kind and at
\* the height clamp band) and in the final track.
C19_AsStated ==
  \A b \in Builders :
    /\ builders[b].stage \notin {"none", "loop"} =>
         Capped(builders[b].g.ys, builders[b].g.caps)
    /\ builders[b].stage \in {"coins", "fuel", "done"} =>
         Capped(builders[b].track.ys, builders[b].g.caps)

\* C20: in a track that buildTrack has returned, every sample with x in
\* [-4, 8] has the height of the sample at x = 0, and every sample in the
\* blend margins lies between that height and the height generated there.
C20_StartPad ==
  \A b \in Builders :
    builders[b].stage \in {"coins", "fuel", "done"} =>
      LET xs == builders[b].track.xs
          ys == builders[b].track.ys
          pad == ys[CHOOSE j \in 1..Len(xs) : xs[j] = 0]
      IN \A i \in 1..Len(xs) :
           /\ PAD_X0 <= xs[i] /\ xs[i] <= PAD_X1 => ys[i] = pad
           /\ \/ PAD_X0 - PAD_BLEND < xs[i] /\ xs[i] < PAD_X0
              \/ PAD_X1 < xs[i] /\ xs[i] < PAD_X1 + PAD_BLEND
              => Between(ys[i], pad, builders[b].gen[i])

\* A finished track whose pad is not at the height generated beside it:
\* samples of both margins lie strictly between the two heights.
C20_Witness ==
  /\ Done("b")
  /\ LET xs == builders["b"].track.xs
         ys == builders["b"].track.ys
         gen == builders["b"].gen
     IN /\ \E i \in 1..Len(xs) : /\ xs[i] < PAD_X0
                                 /\ ys[i] # gen[i] /\ ys[i] # ys[PadIndex(ys)]
        /\ \E i \in 1..Len(xs) : /\ xs[i] > PAD_X1
                                 /\ ys[i] # gen[i] /\ ys[i] # ys[PadIndex(ys)]
        /\ \E i \in 1..Len(xs) : xs[i] = PAD_X0 /\ gen[i] # ys[i]

\* A fuel can was among the pickups of the last tick.
CanTaken == \E k \in 1..Len(ev.got) : pickups[ev.got[k]].kind = "fuel"

\* The pedal of the last tick was on the brake (drive < -0.02).
Braking == ev.thr # NaN /\ ev.thr * 50 < -ThrOne

\* C21: the status goes from OUT_OF_FUEL to RUN in a tick exactly when a fuel
\* can is collected in it with the fuel at or below 0 before and above 0.5
\* after; the resume clears the freeze record, wakes the bodies and gives
\* them their normal damping.
C21_Resume ==
  ev.op = "tick" =>
    /\ (ev.atMotor = "OUT_OF_FUEL" /\ ev.atTest = "RUN")
         <=> (CanTaken /\ ev.fuelAt <= 0 /\ s.fuel * 2 > FuelOne)
    /\ (ev.atMotor = "OUT_OF_FUEL" /\ ev.atTest = "RUN")
         => ev.after = [cf |-> FreshFreeze, awake |-> TRUE, damping |-> "normal"]

\* A car that was settling out of fuel collected the can and drives on.
C21_Witness ==
  /\ ev.op = "tick" /\ ev.from = "OUT_OF_FUEL" /\ CanTaken /\ ev.fuelAt = 0
  /\ s.status = "RUN" /\ cf = FreshFreeze /\ rig.awake /\ rig.damping = "normal"

\* C22: a tick that begins IDLE leaves IDLE exactly if the magnitude of its
\* smoothed throttle exceeds 0.02; a car that is IDLE has a full tank, and
\* with the throttle at rest the tick leaves it IDLE and finds no crash.
C22_StartOnInput ==
  /\ s.status = "IDLE" => s.fuel = FuelFull
  /\ (ev.op = "tick" /\ ev.from = "IDLE") =>
       /\ ev.atDrain # "IDLE" <=> (ev.thr # NaN /\ Abs(ev.thr) * 50 > ThrOne)
       /\ ev.thr = 0 => (s.status = "IDLE" /\ ev.atTest = "IDLE")

\* The brake started the run.
C22_Witness ==
  ev.op = "tick" /\ ev.from = "IDLE" /\ ev.atDrain = "RUN" /\ ev.thr < 0 /\ ev.thr # NaN

\* C23: the motor command of a tick whose status is OUT_OF_FUEL has no
\* forward (negative) speed, and no speed or torque at all unless the pedal
\* is on the brake; the command of a tick whose status is CRASH is zero, and
\* so are the joints' speeds and maximum torques after it.
C23_MotorGate ==
  ev.op = "tick" =>
    /\ ev.atMotor = "OUT_OF_FUEL" =>
         /\ ev.motor.speed >= 0
         /\ ev.motor # NoMotor => Braking
         /\ ev.motor.rear > 0 => ev.motor.speed > 0
    /\ ev.atMotor = "CRASH" =>
         /\ ev.motor = NoMotor
         /\ rig.speed1 = 0 /\ rig.torque1 = 0 /\ rig.speed2 = 0 /\ rig.torque2 = 0

\* setThrottle(1) after the fuel ran out: the throttle is up, the motor off.
C23_Witness ==
  /\ ev.op = "tick" /\ ev.from = "OUT_OF_FUEL" /\ ev.atMotor = "OUT_OF_FUEL"
  /\ throttleTarget = ThrOne /\ ev.thr > 0 /\ ev.motor = NoMotor

\* The freeze took hold in the last tick.
Froze == ev.op = "tick" /\ cf.frozen /\ ~ev.after.cf.frozen

\* C24: the front joint's motor speed is 0 in every state; after a tick its
\* maximum torque is 0.8 times the brake torque of the tick (0 once the
\* freeze has zeroed the joints), so it is nonzero only while braking.
C24_FrontWheel ==
  /\ rig.speed2 = 0
  /\ ev.op = "tick" =>
       /\ rig.torque2 = IF Froze THEN 0 ELSE (ev.motor.brake * 8) \div 10
       /\ rig.torque2 # 0 => Braking

\* The rear wheel is nudged backwards while the front wheel only brakes.
C24_Witness ==
  ev.op = "tick" /\ rig.speed1 > 0 /\ rig.torque2 > 0 /\ rig.speed2 = 0

\* C25: after every tick the angle that was compared (the pitch cut, the
\* upside-down test) lies within half a turn of level once normalized, and a
\* chassis at a whole number of turns does not count as upside-down.
C25_AsStated ==
  ev.op = "tick" =>
    /\ Abs(PitchNorm(car.angle)) <= Pi
    /\ JsRem(car.angle, 2 * Pi) = 0 => ~Upside(car.angle)

\* The airtime of the jump under way, in ticks.
AirTime == IF air.active THEN air.t ELSE 0

\* C26 as stated: in a tick that finds the air state active and does not end
\* in CRASH, the air state stays active and its airtime grows by a tick
\* unless both wheels have ground contact (before or after the tick).
C26_AsStated ==
  [][(ticks' = ticks + 1 /\ air.active /\ s'.status # "CRASH"
      /\ ev'.atMotor \in {"RUN", "OUT_OF_FUEL"}
      /\ ~(gr.w1 > 0 /\ gr.w2 > 0) /\ ~(gr'.w1 > 0 /\ gr'.w2 > 0))
     => (air'.active /\ air'.t = air.t + 1)]_vars

\* C26: a tick that turns the run into CRASH resets the air state and zeroes
\* throttle, throttle target and airtimeS; any other tick that finds neither
\* wheel on the ground (status RUN or OUT_OF_FUEL) adds a tick to the airtime
\* of the jump, at most half a turn to its rotation and never lowers its flip
\* count, and a tick that finds either wheel on the ground ends the jump.
C26_AirUntilGround ==
  [][ticks' = ticks + 1 =>
       IF s'.status = "CRASH" /\ s.status # "CRASH"
       THEN air' = FreshAir /\ throttle' = 0 /\ throttleTarget' = 0 /\ s'.airtimeS = 0
       ELSE IF gr.w1 + gr.w2 > 0 \/ ev'.atMotor \notin {"RUN", "OUT_OF_FUEL"}
       THEN ~air'.active /\ s'.airtimeS = 0
       ELSE /\ air'.active /\ air'.t = AirTime + 1 /\ s'.airtimeS = air'.t
            /\ Abs(air'.acc - (IF air.active THEN air.acc ELSE 0)) <= Pi
            /\ air'.flipCount >= (IF air.active THEN air.flipCount ELSE 0)]_vars

\* A jump of several ticks was ended by a tick that found the rear wheel
\* alone on the ground.
C26_Witness ==
  /\ ev.op = "tick" /\ ev.flying /\ ev.wheels.w1 > 0 /\ ev.wheels.w2 = 0
  /\ ~air.active /\ air.t >= 2 /\ s.status = "RUN" /\ s.airtimeS = 0

\* The run is over with nothing left to wait for: lines 1111.
Settling == s.status = "CRASH" \/ (s.status = "OUT_OF_FUEL" /\ s.fuel * 100 <= FuelOne)

\* The settle duration of the status, in ticks.
SettleOf(status) == IF status = "CRASH" THEN SettleCrash ELSE SettleOutOfFuel

\* C27 as stated: the freeze takes hold only in a tick that reads a speed
\* below 0.35 with the timer past the settle duration, a tick that reads a
\* speed at or above 0.35 restarts the timer, and a tick without a refuel
\* resume leaves a frozen car frozen.
C27_AsStated ==
  ev.op = "tick" =>
    /\ Froze => ev.slow /\ cf.t > SettleOf(s.status)
    /\ (Settling /\ ~ev.after.cf.frozen /\ ~ev.slow) => cf.t = 0
    /\ (ev.after.cf.frozen /\ ~ev.resumed) => cf.frozen

\* C27: while the run is over (CRASH, or OUT_OF_FUEL with the fuel empty) and
\* the car not frozen, every tick of CRASH and every tick of OUT_OF_FUEL that
\* reads a speed below 0.35 adds a tick to the timer, a tick of OUT_OF_FUEL
\* that reads a higher speed restarts it; the car is frozen (joints zeroed,
\* velocities zeroed, bodies asleep) in the tick in which the timer passes
\* the settle duration of the status, not before; the freeze record stays
\* set in every tick without a refuel resume, and no tick outside the end of
\* a run touches the timer.
C27_Settle ==
  ev.op = "tick" =>
    LET c0 == ev.after.cf
    IN /\ (Settling /\ ~c0.frozen) =>
            /\ cf.t = IF s.status = "CRASH" \/ ev.slow THEN c0.t + 1 ELSE 0
            /\ cf.frozen <=> cf.t > SettleOf(s.status)
            /\ rig.damping = "settle"
            /\ cf.frozen =>
                 /\ rig.speed1 = 0 /\ rig.torque1 = 0 /\ rig.speed2 = 0
                 /\ rig.torque2 = 0 /\ ~rig.awake /\ car.vx = 0
       /\ (c0.frozen /\ ~ev.resumed) =>
            /\ cf = c0 /\ ~rig.awake /\ car.vx = 0
            /\ s.status = "CRASH" => rig.torque1 = 0 /\ rig.torque2 = 0
       /\ ~Settling => cf = c0

\* An OUT_OF_FUEL car that stood still long enough froze in the last tick.
C27_Witness ==
  /\ Froze /\ s.status = "OUT_OF_FUEL" /\ ev.slow /\ cf.t = SettleOutOfFuel + 1
  /\ ~rig.awake /\ rig.torque1 = 0

\* What a tick spends of the boost at most: 0.75 * DT.
BoostRate == (75 * BoostOne) \div (100 * HZ)

C29_AsStated ==
  ev.op = "tick" =>
    /\ s.status = "OUT_OF_FUEL" => s.fuel = 0
    /\ (ev.atMotor = "OUT_OF_FUEL" /\ CanTaken) => ev.resumed

\* C30: a tick whose status at the fuel loop is not RUN leaves at least the
\* fuel it found, whatever the throttle and the boost control.
C30_DrainOnlyRun ==
  ev.op = "tick" /\ ev.atDrain # "RUN" => s.fuel >= ev.fuel0

\* A tick of a crashed run with the pedal on the gas left the fuel alone.
C30_Witness ==
  /\ ev.op = "tick" /\ ev.atDrain = "CRASH" /\ ev.thr # NaN /\ ev.thr > 0
  /\ ev.fuel0 > 0 /\ s.fuel = ev.fuel0

====
